---- MODULE Spec2Model ----
(***************************************************************************)
(* Model of the document comparison engine of src/src/utils/textComparison.js *)
(* (compareHtmlDocuments and the functions it calls).                      *)
(*                                                                         *)
(* A text is a sequence of one-character strings, so that trim, the word   *)
(* tokenizer and the word diff are computed, not assumed.  A document is   *)
(* the part of the DOM the engine reads: its block elements outside tables *)
(* (lines), its img elements and its tables.  Block elements come before   *)
(* the tables in document order (this fixes textContent of the document).  *)
(*                                                                         *)
(* The module also models the components that call the engine: App         *)
(* (src/src/App.jsx), FileUpload (src/src/components/MiniMap.jsx) and the  *)
(* hook useDocumentComparison (src/src/components/DocumentPreview.jsx).    *)
(* Their handlers are atomic steps; an async handler is one step up to its *)
(* await and one step for its continuation.                                *)
(***************************************************************************)
EXTENDS Integers, Sequences, FiniteSets, TLC

VARIABLES
    leftHtml,      \* caller's left document
    rightHtml,     \* caller's right document
    pc,            \* "start" | "aligned" | "identical" | "full" | "threw" | "diffed" |
                   \* "compared"
    parts,         \* raw output of diffArrays inside createTrueLineAlignment
    alignedDiff,   \* [left, right]: row lists built by createTrueLineAlignment
    textSummary,   \* [additions, deletions] of createTrueLineAlignment
    structSummary, \* [additions, deletions] of applyImageDiffOutlines
    leftDiffs,     \* content of the returned leftDiffs[0] (compareDocuments: leftDiffs)
    rightDiffs,    \* content of the returned rightDiffs[0] (compareDocuments: rightDiffs)
    summary,       \* returned summary
    detailed,      \* returned detailed report
    collected,     \* the line sequences collected for the alignment and for the report
    leftText,      \* left argument of compareDocuments
    rightText,     \* right argument of compareDocuments
    lFmt,          \* first argument of compareFormat (l.fmt of the caller)
    rFmt,          \* second argument of compareFormat (r.fmt of the caller)
    changes,       \* value returned by compareFormat
    leftDocument,  \* useState of App and of useDocumentComparison
    rightDocument, \* useState of App and of useDocumentComparison
    comparison,    \* useState of App and of useDocumentComparison
    viewMode,      \* useState of App: "preview" | "comparison"
    showDetailed,  \* useState of App
    isComparing,   \* useState of useDocumentComparison
    isProcessing,  \* useState of FileUpload, one value for each of the two slots
    error,         \* useState of FileUpload, one value for each of the two slots
    calls,         \* the async calls that are suspended at their await
    events         \* number of user events handled so far

engineVars == <<leftHtml, rightHtml, pc, parts, alignedDiff, textSummary,
                structSummary, leftDiffs, rightDiffs, summary, detailed, collected,
                leftText, rightText>>

formatVars == <<lFmt, rFmt, changes>>

uiVars == <<leftDocument, rightDocument, comparison, viewMode, showDetailed,
            isComparing, isProcessing, error, calls, events>>

vars == <<engineVars, formatVars, uiVars>>

----------------------------------------------------------------------------
\* Bounds of the model

MaxLines == 2
MaxImgs == 2
MaxTables == 1
MaxRows == 1
MaxCells == 2
MaxSize == 4
MaxChars == 3
MaxEvents == 5

\* Raw textContent of the block elements the inputs are drawn from
LineTexts ==
    { <<>>, <<"a">>, <<"A">>, <<" ", "a">>, <<"a", " ", "b">> }

\* Raw textContent of the table cells the inputs are drawn from
CellTexts == { <<>>, <<"a">>, <<" ", "b">> }

\* Characters of the plain texts given to compareDocuments
Chars == { "a", "b", " " }

\* src attributes of the images the inputs are drawn from
Srcs == { "x.png", "y.png" }

SeqsUpTo(S, n) == UNION { [1..k -> S] : k \in 0..n }

Min(a, b) == IF a < b THEN a ELSE b
Max(a, b) == IF a > b THEN a ELSE b

RECURSIVE Concat(_)
Concat(ss) == IF ss = <<>> THEN <<>> ELSE Head(ss) \o Concat(Tail(ss))

RECURSIVE SumSeq(_)
SumSeq(ns) == IF ns = <<>> THEN 0 ELSE Head(ns) + SumSeq(Tail(ns))

----------------------------------------------------------------------------
\* Texts: String.prototype.trim, the tokenizer and the diff of diffWordsWithSpace

\* U+00A0, which innerHTML = '&nbsp;' writes; trim and \\s treat it as whitespace
NBSP == "nbsp"

IsSpace(c) == c \in {" ", NBSP}

RECURSIVE TrimStart(_)
TrimStart(s) ==
    IF s # <<>> /\ IsSpace(Head(s)) THEN TrimStart(Tail(s)) ELSE s

RECURSIVE TrimEnd(_)
TrimEnd(s) ==
    IF s # <<>> /\ IsSpace(s[Len(s)]) THEN TrimEnd(SubSeq(s, 1, Len(s) - 1)) ELSE s

Trim(s) == TrimEnd(TrimStart(s))

\* Length of the maximal run at the head of s of characters of the class of its first one
RECURSIVE RunLen(_, _)
RunLen(s, space) ==
    IF s # <<>> /\ IsSpace(Head(s)) = space THEN 1 + RunLen(Tail(s), space) ELSE 0

\* Tokens of diffWordsWithSpace: maximal runs of whitespace and maximal runs of word characters
RECURSIVE Tokenize(_)
Tokenize(s) ==
    IF s = <<>> THEN <<>>
    ELSE LET n == RunLen(s, IsSpace(Head(s)))
         IN  <<SubSeq(s, 1, n)>> \o Tokenize(SubSeq(s, n + 1, Len(s)))

\* Length of the longest common subsequence of two token sequences
RECURSIVE LcsLen(_, _)
LcsLen(a, b) ==
    IF a = <<>> \/ b = <<>> THEN 0
    ELSE IF Head(a) = Head(b) THEN 1 + LcsLen(Tail(a), Tail(b))
    ELSE Max(LcsLen(Tail(a), b), LcsLen(a, Tail(b)))

\* A shortest edit script from token sequence a to token sequence b:
\* a sequence of [added, removed, value]
RECURSIVE DiffTokens(_, _)
DiffTokens(a, b) ==
    IF a = <<>> /\ b = <<>> THEN <<>>
    ELSE IF a # <<>> /\ b # <<>> /\ Head(a) = Head(b)
      THEN <<[added |-> FALSE, removed |-> FALSE, value |-> Head(b)]>>
             \o DiffTokens(Tail(a), Tail(b))
    ELSE IF a # <<>> /\ (b = <<>> \/ LcsLen(Tail(a), b) >= LcsLen(a, Tail(b)))
      THEN <<[added |-> FALSE, removed |-> TRUE, value |-> Head(a)]>>
             \o DiffTokens(Tail(a), b)
    ELSE <<[added |-> TRUE, removed |-> FALSE, value |-> Head(b)]>>
             \o DiffTokens(a, Tail(b))

\* Consecutive tokens of the same kind are joined into one change object
RECURSIVE JoinComponents(_)
JoinComponents(ds) ==
    IF Len(ds) < 2 THEN ds
    ELSE LET rest == JoinComponents(Tail(ds))
             d == Head(ds)
             n == Head(rest)
         IN  IF d.added = n.added /\ d.removed = n.removed
             THEN <<[d EXCEPT !.value = d.value \o n.value]>> \o Tail(rest)
             ELSE <<d>> \o rest

diffWordsWithSpace(oldStr, newStr) ==
    JoinComponents(DiffTokens(Tokenize(oldStr), Tokenize(newStr)))

----------------------------------------------------------------------------
\* Documents

\* A block element outside any table: its textContent, whether it holds <b>/<strong>,
\* whether it holds a nested <p>, its classList, the spans written into it, and
\* whether it is an inserted placeholder.  The block elements outside tables of the
\* inputs hold no nested block.
BlockElems ==
    [textContent : LineTexts, bold : {FALSE}, para : {FALSE}, classList : {{}},
     spans : {<<>>}, placeholder : {FALSE}]
    \cup { [textContent |-> <<"a">>, bold |-> TRUE, para |-> FALSE, classList |-> {},
            spans |-> <<>>, placeholder |-> FALSE] }

\* A table cell; para says that the text of the cell is wrapped in a <p>
CellElems ==
    [textContent : CellTexts, bold : {FALSE}, para : {FALSE}, classList : {{}},
     spans : {<<>>}]
    \cup { [textContent |-> <<"a">>, bold |-> FALSE, para |-> TRUE, classList |-> {},
            spans |-> <<>>] }

\* An img element
ImgElems == [src : Srcs, classList : {{}}]

\* A table row
RowElems == [cells : SeqsUpTo(CellElems, MaxCells), classList : {{}}]

\* A table is the sequence of its rows
RowCells(row) == Len(row.cells)
TableCells(table) == SumSeq([r \in 1..Len(table) |-> RowCells(table[r])])
TablesSize(tables) == SumSeq([t \in 1..Len(tables) |-> 1 + TableCells(tables[t])])

DocSize(d) == Len(d.lines) + Len(d.imgs) + TablesSize(d.tables)

RowsOfSize(n) == { r \in RowElems : RowCells(r) <= n }
TablesOfSize(n) == { t \in SeqsUpTo(RowsOfSize(n), MaxRows) : TableCells(t) <= n }
TableListsOfSize(n) ==
    IF n <= 0 THEN { <<>> }
    ELSE { ts \in SeqsUpTo(TablesOfSize(n - 1), Min(n, MaxTables)) : TablesSize(ts) <= n }

\* The documents with at most n nodes (block elements, images, tables, cells)
DocsOfSize(n) ==
    UNION { UNION { { [lines |-> l, imgs |-> i, tables |-> t] :
                        t \in TableListsOfSize(n - Len(l) - Len(i)) } :
                    i \in SeqsUpTo(ImgElems, Min(n - Len(l), MaxImgs)) } :
            l \in SeqsUpTo(BlockElems, Min(n, MaxLines)) }

----------------------------------------------------------------------------
\* htmlToDiv and extractPlainText

\* A document without any element
NoDoc == [lines |-> <<>>, imgs |-> <<>>, tables |-> <<>>]

\* The value null passed as a document
Null == [isNull |-> TRUE]

\* htmlToDiv: the container div whose innerHTML is set to html; setting innerHTML
\* to null gives the empty container
htmlToDiv(html) == IF html = Null THEN NoDoc ELSE html

\* extractPlainText: "" for a falsy html, else the textContent of the whole document
extractPlainText(html) ==
    IF html = Null THEN <<>>
    ELSE
      LET tempDiv == htmlToDiv(html)
      IN  Concat([i \in 1..Len(tempDiv.lines) |-> tempDiv.lines[i].textContent])
          \o Concat([t \in 1..Len(tempDiv.tables) |->
                Concat([r \in 1..Len(tempDiv.tables[t]) |->
                  Concat([c \in 1..Len(tempDiv.tables[t][r].cells) |->
                            tempDiv.tables[t][r].cells[c].textContent])])])

----------------------------------------------------------------------------
\* applyInlineWordDiff

\* The change objects for which a span is appended on this side
ShownOnSide(d, side) ==
    \/ d.added /\ side = "right"
    \/ d.removed /\ side = "left"
    \/ ~d.added /\ ~d.removed

SpanOf(d) ==
    [className |-> IF d.added THEN "git-inline-added"
                   ELSE IF d.removed THEN "git-inline-removed" ELSE "",
     textContent |-> d.value]

applyInlineWordDiff(element, ownText, otherText, side) ==
    IF Trim(ownText) = <<>> /\ Trim(otherText) = <<>> THEN element
    ELSE IF Trim(ownText) = Trim(otherText) THEN element
    ELSE
      LET diffs == diffWordsWithSpace(ownText, otherText)
          hasChanges == \E i \in DOMAIN diffs : diffs[i].added \/ diffs[i].removed
          shown == SelectSeq(diffs, LAMBDA d : ShownOnSide(d, side))
          hasContent == \E i \in DOMAIN shown :
                          \/ shown[i].added
                          \/ shown[i].removed
                          \/ Trim(shown[i].value) # <<>>
          spans == [i \in DOMAIN shown |-> SpanOf(shown[i])]
          text == Concat([i \in DOMAIN shown |-> shown[i].value])
      IN  IF ~hasChanges THEN element
          ELSE IF ~hasContent THEN element
          ELSE IF Trim(text) = <<>>
            THEN [element EXCEPT !.textContent = <<NBSP>>, !.bold = FALSE,
                                 !.para = FALSE, !.spans = <<>>]
          ELSE [element EXCEPT !.textContent = text, !.bold = FALSE,
                               !.para = FALSE, !.spans = spans]

----------------------------------------------------------------------------
\* applyImageDiffOutlines

ImgAt(imgs, i) == IF i \in DOMAIN imgs THEN imgs[i] ELSE [src |-> "", classList |-> {}]
HasImg(imgs, i) == i \in DOMAIN imgs

\* Mutant: an image present on the left only is outlined but not counted
ImgOutlineRemovedUncounted(leftImgs, rightImgs, i) ==
    LET li == HasImg(leftImgs, i)
        ri == HasImg(rightImgs, i)
    IN  IF li /\ ~ri
          THEN [left |-> {"structural-removed"}, right |-> {}, additions |-> 0, deletions |-> 0]
        ELSE IF ~li /\ ri
          THEN [left |-> {}, right |-> {"structural-added"}, additions |-> 1, deletions |-> 0]
        ELSE IF li /\ ri /\ ImgAt(leftImgs, i).src # ImgAt(rightImgs, i).src
          THEN [left |-> {"structural-modified"}, right |-> {"structural-modified"},
                additions |-> 1, deletions |-> 1]
        ELSE [left |-> {}, right |-> {}, additions |-> 0, deletions |-> 0]

\* Mutant: a replaced image is counted as an addition only
ImgOutlineReplacedAsAdded(leftImgs, rightImgs, i) ==
    LET li == HasImg(leftImgs, i)
        ri == HasImg(rightImgs, i)
    IN  IF li /\ ~ri
          THEN [left |-> {"structural-removed"}, right |-> {}, additions |-> 0, deletions |-> 1]
        ELSE IF ~li /\ ri
          THEN [left |-> {}, right |-> {"structural-added"}, additions |-> 1, deletions |-> 0]
        ELSE IF li /\ ri /\ ImgAt(leftImgs, i).src # ImgAt(rightImgs, i).src
          THEN [left |-> {"structural-modified"}, right |-> {"structural-modified"},
                additions |-> 1, deletions |-> 0]
        ELSE [left |-> {}, right |-> {}, additions |-> 0, deletions |-> 0]

\* The class added to the own image at index i, and what the pair at i adds to the counts
ImgOutline(leftImgs, rightImgs, i) ==
    LET li == HasImg(leftImgs, i)
        ri == HasImg(rightImgs, i)
    IN  IF li /\ ~ri
          THEN [left |-> {"structural-removed"}, right |-> {}, additions |-> 0, deletions |-> 1]
        ELSE IF ~li /\ ri
          THEN [left |-> {}, right |-> {"structural-added"}, additions |-> 1, deletions |-> 0]
        ELSE IF li /\ ri /\ ImgAt(leftImgs, i).src # ImgAt(rightImgs, i).src
          THEN [left |-> {"structural-modified"}, right |-> {"structural-modified"},
                additions |-> 1, deletions |-> 1]
        ELSE [left |-> {}, right |-> {}, additions |-> 0, deletions |-> 0]

applyImageDiffOutlines(lHtml, rHtml) ==
    LET leftDiv == htmlToDiv(lHtml)
        rightDiv == htmlToDiv(rHtml)
        leftImgs == leftDiv.imgs
        rightImgs == rightDiv.imgs
        max == Max(Len(leftImgs), Len(rightImgs))
        o == [i \in 1..max |-> ImgOutline(leftImgs, rightImgs, i)]
    IN  [leftDomWithImages |->
           [leftDiv EXCEPT !.imgs = [i \in DOMAIN leftImgs |->
              [leftImgs[i] EXCEPT !.classList = @ \cup o[i].left]]],
         rightDomWithImages |->
           [rightDiv EXCEPT !.imgs = [i \in DOMAIN rightImgs |->
              [rightImgs[i] EXCEPT !.classList = @ \cup o[i].right]]],
         structSummary |->
           [additions |-> SumSeq([i \in 1..max |-> o[i].additions]),
            deletions |-> SumSeq([i \in 1..max |-> o[i].deletions])]]

----------------------------------------------------------------------------
\* applyTableCellDiffs

HasCell(tables, t, r, c) ==
    /\ t \in DOMAIN tables
    /\ r \in DOMAIN tables[t]
    /\ c \in DOMAIN tables[t][r].cells

\* The own cell oc after the body of the column loop, and the class its row receives
CellDiff(oc, xcExists, xcTextContent, side) ==
    LET ownText == Trim(oc.textContent)
        otherText == Trim(IF xcExists THEN xcTextContent ELSE <<>>)
    IN  IF ~xcExists /\ ownText # <<>>
          THEN IF side = "left"
                 THEN [cell |-> [oc EXCEPT !.classList = @ \cup {"git-cell-removed"}],
                       row |-> {"git-line-removed"}]
                 ELSE [cell |-> oc, row |-> {}]
        ELSE IF xcExists /\ ownText = <<>> /\ otherText # <<>> /\ side = "right"
          THEN [cell |-> [oc EXCEPT !.classList = @ \cup {"git-cell-added"}],
                row |-> {"git-line-added"}]
        ELSE IF xcExists /\ ownText # <<>> /\ otherText # <<>> /\ ownText # otherText
          THEN [cell |-> applyInlineWordDiff(
                           [oc EXCEPT !.classList = @ \cup {"git-cell-modified"}],
                           ownText, otherText, side),
                row |-> {}]
        ELSE [cell |-> oc, row |-> {}]

applyTableCellDiffs(ownHtml, otherHtml, side) ==
    LET ownTables == ownHtml.tables
        otherTables == otherHtml.tables
        d(t, r, c) ==
            CellDiff(ownTables[t][r].cells[c],
                     HasCell(otherTables, t, r, c),
                     IF HasCell(otherTables, t, r, c)
                       THEN otherTables[t][r].cells[c].textContent ELSE <<>>,
                     side)
    IN  [ownHtml EXCEPT !.tables =
          [t \in DOMAIN ownTables |->
            [r \in DOMAIN ownTables[t] |->
              [cells |-> [c \in DOMAIN ownTables[t][r].cells |-> d(t, r, c).cell],
               classList |-> ownTables[t][r].classList
                  \cup UNION { d(t, r, c).row : c \in DOMAIN ownTables[t][r].cells }]]]]

----------------------------------------------------------------------------
\* The elements of a document in document order, as the TreeWalker and
\* querySelectorAll visit them.  A node carries its tag, the tags of its ancestors
\* from its parent up to the container div, and what the collectors read from it.
\* element is the position of the node in this order (0 stands for null), so the
\* i-th block element outside tables is element i.

BLOCK_TAGS == { "p", "h1", "h2", "h3", "h4", "h5", "h6", "li", "pre", "div" }

Node(tag, ancestors, el) ==
    [tagName |-> tag, ancestors |-> ancestors, element |-> 0,
     textContent |-> el.textContent, bold |-> el.bold]

CellNodes(cell) ==
    <<Node("td", <<"tr", "tbody", "table", "div">>, cell)>>
    \o (IF cell.para
          THEN <<Node("p", <<"td", "tr", "tbody", "table", "div">>, cell)>>
          ELSE <<>>)

RowNodes(row) ==
    <<[tagName |-> "tr", ancestors |-> <<"tbody", "table", "div">>, element |-> 0,
       textContent |-> Concat([c \in DOMAIN row.cells |-> row.cells[c].textContent]),
       bold |-> FALSE]>>
    \o Concat([c \in DOMAIN row.cells |-> CellNodes(row.cells[c])])

TableNodes(table) ==
    LET text == Concat([r \in DOMAIN table |->
                  Concat([c \in DOMAIN table[r].cells |-> table[r].cells[c].textContent])])
    IN  <<[tagName |-> "table", ancestors |-> <<"div">>, element |-> 0,
           textContent |-> text, bold |-> FALSE],
          [tagName |-> "tbody", ancestors |-> <<"table", "div">>, element |-> 0,
           textContent |-> text, bold |-> FALSE]>>
        \o Concat([r \in DOMAIN table |-> RowNodes(table[r])])

Elements(root) ==
    LET nodes == [i \in DOMAIN root.lines |-> Node("p", <<"div">>, root.lines[i])]
                 \o Concat([t \in DOMAIN root.tables |-> TableNodes(root.tables[t])])
    IN  [k \in DOMAIN nodes |-> [nodes[k] EXCEPT !.element = k]]

\* node.parentNode, as far as isInsideTable reads it
ParentNode(node) == [node EXCEPT !.ancestors = Tail(@)]

\* Mutant: no node counts as inside a table
IsInsideTableNever(node) == FALSE

\* isInsideTable(node): some ancestor is a table element
isInsideTable(node) ==
    \E i \in DOMAIN node.ancestors :
        node.ancestors[i] \in { "table", "thead", "tbody", "tr", "td", "th" }

\* collectLinesWithStructure: one line per block element outside tables

collectLinesWithStructure(root) ==
    LET kept == SelectSeq(Elements(root),
                  LAMBDA node : /\ node.tagName \in BLOCK_TAGS
                                /\ ~isInsideTable(node)
                                /\ ~isInsideTable(ParentNode(node)))
    IN  [i \in DOMAIN kept |->
           [element |-> kept[i].element,
            text |-> Trim(kept[i].textContent),
            isEmpty |-> Trim(kept[i].textContent) = <<>>,
            bold |-> kept[i].bold]]

NullLine == [element |-> 0, text |-> <<>>, isEmpty |-> TRUE, bold |-> FALSE]

\* lines[i] || null, with the 0-based index of the code
LineAt(lines, i) == IF i + 1 \in DOMAIN lines THEN lines[i + 1] ELSE NullLine

----------------------------------------------------------------------------
\* diffArrays(leftTexts, rightTexts, {comparator}): the change objects of a shortest
\* edit script.  Which shortest script the library returns is left open: every
\* script that follows a common element whenever one is at hand is allowed.

comparator(a, b) == Trim(a) = Trim(b)

RECURSIVE LcsLines(_, _)
LcsLines(a, b) ==
    IF a = <<>> \/ b = <<>> THEN 0
    ELSE IF comparator(Head(a), Head(b)) THEN 1 + LcsLines(Tail(a), Tail(b))
    ELSE Max(LcsLines(Tail(a), b), LcsLines(a, Tail(b)))

\* The shortest edit paths: sequences of "e" (common), "r" (removed), "a" (added)
RECURSIVE EditPaths(_, _)
EditPaths(a, b) ==
    IF a = <<>> /\ b = <<>> THEN { <<>> }
    ELSE IF a # <<>> /\ b # <<>> /\ comparator(Head(a), Head(b))
      THEN { <<"e">> \o p : p \in EditPaths(Tail(a), Tail(b)) }
    ELSE (IF a # <<>> /\ LcsLines(Tail(a), b) = LcsLines(a, b)
            THEN { <<"r">> \o p : p \in EditPaths(Tail(a), b) } ELSE {})
         \cup
         (IF b # <<>> /\ LcsLines(a, Tail(b)) = LcsLines(a, b)
            THEN { <<"a">> \o p : p \in EditPaths(a, Tail(b)) } ELSE {})

\* One change object per maximal run of the same operation
RECURSIVE Components(_)
Components(path) ==
    IF path = <<>> THEN <<>>
    ELSE LET rest == Components(Tail(path))
             op == Head(path)
         IN  IF rest # <<>> /\ rest[1].added = (op = "a") /\ rest[1].removed = (op = "r")
             THEN <<[rest[1] EXCEPT !.count = @ + 1]>> \o Tail(rest)
             ELSE <<[added |-> op = "a", removed |-> op = "r", count |-> 1]>> \o rest

\* A removed change object that follows an added one is moved in front of it
RECURSIVE RemovesFirst(_, _)
RemovesFirst(comps, i) ==
    IF i > Len(comps) THEN comps
    ELSE IF i > 1 /\ comps[i].removed /\ comps[i - 1].added
      THEN RemovesFirst([comps EXCEPT ![i - 1] = comps[i], ![i] = comps[i - 1]], i + 1)
    ELSE RemovesFirst(comps, i + 1)

diffArrays(leftTexts, rightTexts) ==
    { RemovesFirst(Components(p), 1) : p \in EditPaths(leftTexts, rightTexts) }

----------------------------------------------------------------------------
\* createTrueLineAlignment

Row(type, line, otherLine) ==
    [type |-> type, lineNumber |-> 0, content |-> line.text, element |-> line.element,
     otherContent |-> otherLine.text, otherLine |-> otherLine.element]

\* Mutant: the row pushed opposite a line without counterpart is not a placeholder
PlaceholderUntyped(otherLine) ==
    [type |-> "unchanged", lineNumber |-> 0, content |-> <<>>, element |-> 0,
     otherContent |-> <<>>, otherLine |-> otherLine.element]

Placeholder(otherLine) ==
    [type |-> "placeholder", lineNumber |-> 0, content |-> <<>>, element |-> 0,
     otherContent |-> <<>>, otherLine |-> otherLine.element]

IsLine(line) == line.element # 0

\* Mutant: an empty added line is typed and counted like any added line
AddedStepCountsEmpty(rightLine) ==
    [left |-> <<Placeholder(rightLine)>>, right |-> <<Row("added", rightLine, NullLine)>>,
     additions |-> 1, deletions |-> 0]

\* Body of the loops over an added segment (lines 134-170, 279-313)
AddedStep(rightLine) ==
    IF IsLine(rightLine) /\ Trim(rightLine.text) # <<>>
      THEN [left |-> <<Placeholder(rightLine)>>, right |-> <<Row("added", rightLine, NullLine)>>,
            additions |-> 1, deletions |-> 0]
      ELSE [left |-> <<Placeholder(rightLine)>>,
            right |-> <<Row("unchanged", rightLine, NullLine)>>,
            additions |-> 0, deletions |-> 0]

\* Mutant: no placeholder is pushed opposite a removed line
RemovedStepNoPlaceholder(leftLine) ==
    IF IsLine(leftLine) /\ Trim(leftLine.text) # <<>>
      THEN [left |-> <<Row("removed", leftLine, NullLine)>>, right |-> <<>>,
            additions |-> 0, deletions |-> 1]
      ELSE [left |-> <<Row("unchanged", leftLine, NullLine)>>, right |-> <<>>,
            additions |-> 0, deletions |-> 0]

\* Body of the loops over a removed segment (lines 242-276, 322-356)
RemovedStep(leftLine) ==
    IF IsLine(leftLine) /\ Trim(leftLine.text) # <<>>
      THEN [left |-> <<Row("removed", leftLine, NullLine)>>, right |-> <<Placeholder(leftLine)>>,
            additions |-> 0, deletions |-> 1]
      ELSE [left |-> <<Row("unchanged", leftLine, NullLine)>>,
            right |-> <<Placeholder(leftLine)>>,
            additions |-> 0, deletions |-> 0]

\* Mutant: the paired loop does not treat empty lines apart
PairStepEmptyLikeAny(leftLine, rightLine) ==
    IF Trim(leftLine.text) # Trim(rightLine.text)
      THEN [left |-> <<Row("modified", leftLine, rightLine)>>,
            right |-> <<Row("modified", rightLine, leftLine)>>,
            additions |-> 1, deletions |-> 1]
      ELSE [left |-> <<Row("unchanged", leftLine, NullLine)>>,
            right |-> <<Row("unchanged", rightLine, NullLine)>>,
            additions |-> 0, deletions |-> 0]

\* Body of the loop over the paired positions (lines 184-239)
PairStep(leftLine, rightLine) ==
    IF IsLine(leftLine) /\ IsLine(rightLine)
         /\ Trim(leftLine.text) # <<>> /\ Trim(rightLine.text) # <<>>
      THEN IF Trim(leftLine.text) # Trim(rightLine.text)
             THEN [left |-> <<Row("modified", leftLine, rightLine)>>,
                   right |-> <<Row("modified", rightLine, leftLine)>>,
                   additions |-> 1, deletions |-> 1]
             ELSE [left |-> <<Row("unchanged", leftLine, NullLine)>>,
                   right |-> <<Row("unchanged", rightLine, NullLine)>>,
                   additions |-> 0, deletions |-> 0]
      ELSE [left |-> <<Row(IF IsLine(leftLine) /\ Trim(leftLine.text) # <<>>
                             THEN "removed" ELSE "unchanged", leftLine, NullLine)>>,
            right |-> <<Row(IF IsLine(rightLine) /\ Trim(rightLine.text) # <<>>
                              THEN "added" ELSE "unchanged", rightLine, NullLine)>>,
            additions |-> 0, deletions |-> 0]

\* Body of the loop over an equal segment (lines 362-377)
EqualStep(leftLine, rightLine) ==
    [left |-> <<Row("unchanged", leftLine, NullLine)>>,
     right |-> <<Row("unchanged", rightLine, NullLine)>>,
     additions |-> 0, deletions |-> 0]

\* push: lineNumber is the length of the result before the push
RECURSIVE PushRows(_, _)
PushRows(result, rows) ==
    IF rows = <<>> THEN result
    ELSE PushRows(Append(result, [Head(rows) EXCEPT !.lineNumber = Len(result)]), Tail(rows))

RECURSIVE PushSteps(_, _)
PushSteps(acc, steps) ==
    IF steps = <<>> THEN acc
    ELSE LET st == Head(steps)
         IN  PushSteps([left |-> PushRows(acc.left, st.left),
                        right |-> PushRows(acc.right, st.right),
                        additions |-> acc.additions + st.additions,
                        deletions |-> acc.deletions + st.deletions],
                       Tail(steps))

\* Mutant: the loop over the remaining removed lines starts one line late
PairedStepsSkipsOne(leftLines, rightLines, iLeft, iRight, removedCount, addedCount) ==
    LET pairCount == Min(removedCount, addedCount)
    IN  [k \in 1..pairCount |->
           PairStep(LineAt(leftLines, iLeft + k - 1), LineAt(rightLines, iRight + k - 1))]
        \o (IF removedCount - pairCount >= 1
              THEN [j \in 1..(removedCount - pairCount - 1) |->
                      RemovedStep(LineAt(leftLines, iLeft + pairCount + j))]
              ELSE <<>>)
        \o [j \in 1..(addedCount - pairCount) |->
              AddedStep(LineAt(rightLines, iRight + pairCount + j - 1))]

\* The steps of a removed segment followed by an added segment (lines 179-313)
PairedSteps(leftLines, rightLines, iLeft, iRight, removedCount, addedCount) ==
    LET pairCount == Min(removedCount, addedCount)
    IN  [k \in 1..pairCount |->
           PairStep(LineAt(leftLines, iLeft + k - 1), LineAt(rightLines, iRight + k - 1))]
        \o [j \in 1..(removedCount - pairCount) |->
              RemovedStep(LineAt(leftLines, iLeft + pairCount + j - 1))]
        \o [j \in 1..(addedCount - pairCount) |->
              AddedStep(LineAt(rightLines, iRight + pairCount + j - 1))]

\* The loop over the change objects, from index p on (lines 129-380)
RECURSIVE AlignFrom(_, _, _, _, _, _, _)
AlignFrom(leftLines, rightLines, ps, p, iLeft, iRight, acc) ==
    IF p > Len(ps) THEN acc
    ELSE
      LET part == ps[p]
      IN  IF part.added
            THEN AlignFrom(leftLines, rightLines, ps, p + 1, iLeft, iRight + part.count,
                   PushSteps(acc, [k \in 1..part.count |->
                                     AddedStep(LineAt(rightLines, iRight + k - 1))]))
          ELSE IF part.removed
            THEN IF p + 1 <= Len(ps) /\ ps[p + 1].added
                   THEN AlignFrom(leftLines, rightLines, ps, p + 2,
                          iLeft + part.count, iRight + ps[p + 1].count,
                          PushSteps(acc, PairedSteps(leftLines, rightLines, iLeft, iRight,
                                                     part.count, ps[p + 1].count)))
                   ELSE AlignFrom(leftLines, rightLines, ps, p + 1, iLeft + part.count, iRight,
                          PushSteps(acc, [k \in 1..part.count |->
                                            RemovedStep(LineAt(leftLines, iLeft + k - 1))]))
          ELSE AlignFrom(leftLines, rightLines, ps, p + 1,
                 iLeft + part.count, iRight + part.count,
                 PushSteps(acc, [k \in 1..part.count |->
                                   EqualStep(LineAt(leftLines, iLeft + k - 1),
                                             LineAt(rightLines, iRight + k - 1))]))

\* createTrueLineAlignment once diffArrays has returned ps
createTrueLineAlignment(leftLines, rightLines, ps) ==
    LET acc == AlignFrom(leftLines, rightLines, ps, 1, 0, 0,
                         [left |-> <<>>, right |-> <<>>, additions |-> 0, deletions |-> 0])
    IN  [alignedDiff |-> [left |-> acc.left, right |-> acc.right],
         summary |-> [additions |-> acc.additions, deletions |-> acc.deletions]]

LineTextsOf(lines) == [i \in DOMAIN lines |-> lines[i].text]

----------------------------------------------------------------------------
\* applyLineByLineDiffToDOM.  While the rows are applied the block elements of the
\* container are kept with the position they had in the input (id, 0 for an
\* inserted placeholder), which is how a row finds its element.

PlaceholderElem ==
    [textContent |-> <<NBSP>>, bold |-> FALSE, para |-> FALSE,
     classList |-> {"git-line-placeholder"},
     spans |-> <<>>, placeholder |-> TRUE]

InsertAt(seq, i, x) == SubSeq(seq, 1, i - 1) \o <<x>> \o SubSeq(seq, i, Len(seq))

\* The element of a row after the branch for its type (lines 391-431)
MarkElement(el, diffLine, side) ==
    IF diffLine.type = "removed"
      THEN LET e == [el EXCEPT !.classList = @ \cup {"git-line-removed"}]
           IN  IF Trim(el.textContent) # <<>>
                 THEN applyInlineWordDiff(e, el.textContent, <<>>, side) ELSE e
    ELSE IF diffLine.type = "added"
      THEN LET e == [el EXCEPT !.classList = @ \cup {"git-line-added"}]
           IN  IF Trim(el.textContent) # <<>>
                 THEN applyInlineWordDiff(e, <<>>, el.textContent, side) ELSE e
    ELSE IF diffLine.type = "modified"
      THEN LET ownText == el.textContent
               otherText == diffLine.otherContent
           IN  IF Trim(ownText) # Trim(otherText)
                 THEN applyInlineWordDiff(
                        [el EXCEPT !.classList = @ \cup {"git-line-modified"}],
                        ownText, otherText, side)
                 ELSE el
    ELSE el

\* diffResult.forEach from index i on (0-based index = i - 1)
RECURSIVE ApplyRows(_, _, _, _, _)
ApplyRows(dom, diffResult, i, processedElements, side) ==
    IF i > Len(diffResult) THEN dom
    ELSE
      LET diffLine == diffResult[i]
          index == i - 1
      IN  IF diffLine.type \in {"removed", "added", "modified"}
            THEN IF diffLine.element = 0 \/ diffLine.element \in processedElements
                   THEN ApplyRows(dom, diffResult, i + 1, processedElements, side)
                   ELSE ApplyRows(
                          [k \in DOMAIN dom |->
                             IF dom[k].id = diffLine.element
                               THEN [dom[k] EXCEPT !.el = MarkElement(@, diffLine, side)]
                               ELSE dom[k]],
                          diffResult, i + 1,
                          processedElements \cup {diffLine.element}, side)
          ELSE IF diffLine.type = "placeholder"
            THEN ApplyRows(
                   IF index < Len(dom)
                     THEN InsertAt(dom, index + 1, [id |-> 0, el |-> PlaceholderElem])
                     ELSE Append(dom, [id |-> 0, el |-> PlaceholderElem]),
                   diffResult, i + 1, processedElements, side)
          ELSE ApplyRows(dom, diffResult, i + 1, processedElements, side)

applyLineByLineDiffToDOM(container, diffResult, side) ==
    LET dom == ApplyRows([i \in DOMAIN container.lines |->
                            [id |-> i, el |-> container.lines[i]]],
                         diffResult, 1, {}, side)
    IN  [container EXCEPT !.lines = [k \in DOMAIN dom |-> dom[k].el]]

----------------------------------------------------------------------------
\* generateDetailedReport

\* extractLineFeatures: the inputs carry no <i>, <u>, font-size or alignment
extractLineFeatures(node) ==
    [hasBold |-> node.bold, hasItalic |-> FALSE, hasUnderline |-> FALSE,
     fontSize |-> "", textAlign |-> ""]

\* collectBlockLinesWithFormat: the block elements outside tables, text not trimmed
collectBlockLinesWithFormat(root) ==
    LET blocks == SelectSeq(Elements(root), LAMBDA node : node.tagName \in BLOCK_TAGS)
        kept == SelectSeq(blocks, LAMBDA b : ~isInsideTable(b))
    IN  [idx \in DOMAIN kept |->
           [index |-> idx - 1, text |-> kept[idx].textContent,
            fmt |-> extractLineFeatures(kept[idx]), element |-> kept[idx].element]]

OnOff(flag) == IF flag THEN "on" ELSE "off"
OrAuto(value) == IF value = "" THEN "auto" ELSE value

\* !!f[key]: a flag the record does not carry reads as undefined, which is falsy
Flag(f, key) == key \in DOMAIN f /\ f[key]

\* f[key] || '': a string the record does not carry reads as undefined
StringOr(f, key) == IF key \in DOMAIN f THEN f[key] ELSE ""

\* Mutant: the alignment test is made first
compareFormatAlignmentFirst(fa, fb) ==
    (IF StringOr(fa, "textAlign") # StringOr(fb, "textAlign")
       THEN <<<<"alignment", OrAuto(StringOr(fa, "textAlign")), "->",
                OrAuto(StringOr(fb, "textAlign"))>>>>
       ELSE <<>>)
    \o (IF Flag(fa, "hasBold") # Flag(fb, "hasBold")
          THEN <<<<"bold", OnOff(Flag(fa, "hasBold")), "->", OnOff(Flag(fb, "hasBold"))>>>>
          ELSE <<>>)
    \o (IF Flag(fa, "hasItalic") # Flag(fb, "hasItalic")
          THEN <<<<"italic", OnOff(Flag(fa, "hasItalic")), "->",
                   OnOff(Flag(fb, "hasItalic"))>>>>
          ELSE <<>>)
    \o (IF Flag(fa, "hasUnderline") # Flag(fb, "hasUnderline")
          THEN <<<<"underline", OnOff(Flag(fa, "hasUnderline")), "->",
                   OnOff(Flag(fb, "hasUnderline"))>>>>
          ELSE <<>>)
    \o (IF StringOr(fa, "fontSize") # StringOr(fb, "fontSize")
          THEN <<<<"font-size", OrAuto(StringOr(fa, "fontSize")), "->",
                   OrAuto(StringOr(fb, "fontSize"))>>>>
          ELSE <<>>)

\* compareFormat: one descriptor per differing attribute ("->" stands for the arrow)
compareFormat(fa, fb) ==
    (IF Flag(fa, "hasBold") # Flag(fb, "hasBold")
       THEN <<<<"bold", OnOff(Flag(fa, "hasBold")), "->", OnOff(Flag(fb, "hasBold"))>>>>
       ELSE <<>>)
    \o (IF Flag(fa, "hasItalic") # Flag(fb, "hasItalic")
          THEN <<<<"italic", OnOff(Flag(fa, "hasItalic")), "->",
                   OnOff(Flag(fb, "hasItalic"))>>>>
          ELSE <<>>)
    \o (IF Flag(fa, "hasUnderline") # Flag(fb, "hasUnderline")
          THEN <<<<"underline", OnOff(Flag(fa, "hasUnderline")), "->",
                   OnOff(Flag(fb, "hasUnderline"))>>>>
          ELSE <<>>)
    \o (IF StringOr(fa, "fontSize") # StringOr(fb, "fontSize")
          THEN <<<<"font-size", OrAuto(StringOr(fa, "fontSize")), "->",
                   OrAuto(StringOr(fb, "fontSize"))>>>>
          ELSE <<>>)
    \o (IF StringOr(fa, "textAlign") # StringOr(fb, "textAlign")
          THEN <<<<"alignment", OrAuto(StringOr(fa, "textAlign")), "->",
                   OrAuto(StringOr(fb, "textAlign"))>>>>
          ELSE <<>>)

\* inlineDiffHtml: the spans of the word diff of a against b
inlineDiffHtml(a, b) ==
    LET ps == diffWordsWithSpace(a, b)
    IN  [i \in DOMAIN ps |-> SpanOf(ps[i])]

\* visibleSpaces(escapeHtml(text)): the text as one span without class
PlainHtml(text) == IF text = <<>> THEN <<>> ELSE <<[className |-> "", textContent |-> text]>>

\* diffArrays with the comparator a === b of line 742
RECURSIVE LcsExact(_, _)
LcsExact(a, b) ==
    IF a = <<>> \/ b = <<>> THEN 0
    ELSE IF Head(a) = Head(b) THEN 1 + LcsExact(Tail(a), Tail(b))
    ELSE Max(LcsExact(Tail(a), b), LcsExact(a, Tail(b)))

RECURSIVE EditPathsExact(_, _)
EditPathsExact(a, b) ==
    IF a = <<>> /\ b = <<>> THEN { <<>> }
    ELSE IF a # <<>> /\ b # <<>> /\ Head(a) = Head(b)
      THEN { <<"e">> \o p : p \in EditPathsExact(Tail(a), Tail(b)) }
    ELSE (IF a # <<>> /\ LcsExact(Tail(a), b) = LcsExact(a, b)
            THEN { <<"r">> \o p : p \in EditPathsExact(Tail(a), b) } ELSE {})
         \cup
         (IF b # <<>> /\ LcsExact(a, Tail(b)) = LcsExact(a, b)
            THEN { <<"a">> \o p : p \in EditPathsExact(a, Tail(b)) } ELSE {})

diffArraysExact(leftTexts, rightTexts) ==
    { RemovesFirst(Components(p), 1) : p \in EditPathsExact(leftTexts, rightTexts) }

\* An entry of the line report before v1 and v2 are numbered
ReportLine(hasV1, hasV2, status, diffHtml, formatChanges) ==
    [v1 |-> IF hasV1 THEN 1 ELSE 0, v2 |-> IF hasV2 THEN 1 ELSE 0, status |-> status,
     diffHtml |-> diffHtml, formatChanges |-> formatChanges]

\* Body of the loop over an added part (lines 750-755)
ReportAdded(r) ==
    IF Trim(r.text) # <<>>
      THEN <<ReportLine(FALSE, TRUE, "ADDED", inlineDiffHtml(<<>>, r.text), <<"added line">>)>>
      ELSE <<>>

\* Body of the loop over a removed part (lines 759-764)
ReportRemoved(l) ==
    IF Trim(l.text) # <<>>
      THEN <<ReportLine(TRUE, FALSE, "REMOVED", inlineDiffHtml(l.text, <<>>),
                        <<"removed line">>)>>
      ELSE <<>>

\* Body of the loop over an unchanged part (lines 768-783)
ReportEqual(l, r) ==
    LET textEqual == Trim(l.text) = Trim(r.text)
        fmtChanges == compareFormat(l.fmt, r.fmt)
    IN  IF textEqual /\ Len(fmtChanges) > 0
          THEN <<ReportLine(TRUE, TRUE, "FORMATTING-ONLY", PlainHtml(l.text), fmtChanges)>>
        ELSE IF textEqual
          THEN <<ReportLine(TRUE, TRUE, "UNCHANGED", PlainHtml(l.text), <<>>)>>
        ELSE IF Trim(l.text) # <<>> \/ Trim(r.text) # <<>>
          THEN <<ReportLine(TRUE, TRUE, "MODIFIED", inlineDiffHtml(l.text, r.text),
                            fmtChanges)>>
        ELSE <<>>

\* The loop over the change objects, from index p on (lines 747-784)
RECURSIVE ReportFrom(_, _, _, _, _, _)
ReportFrom(leftLines, rightLines, ps, p, iL, iR) ==
    IF p > Len(ps) THEN <<>>
    ELSE
      LET part == ps[p]
          count == part.count
      IN  IF part.added
            THEN Concat([k \in 1..count |-> ReportAdded(rightLines[iR + k])])
                 \o ReportFrom(leftLines, rightLines, ps, p + 1, iL, iR + count)
          ELSE IF part.removed
            THEN Concat([k \in 1..count |-> ReportRemoved(leftLines[iL + k])])
                 \o ReportFrom(leftLines, rightLines, ps, p + 1, iL + count, iR)
          ELSE Concat([k \in 1..count |-> ReportEqual(leftLines[iL + k], rightLines[iR + k])])
               \o ReportFrom(leftLines, rightLines, ps, p + 1, iL + count, iR + count)

\* String(v1++), String(v2++): an entry with a left (right) number gets the next one
NumberLines(entries) ==
    [i \in DOMAIN entries |->
       [entries[i] EXCEPT
          !.v1 = IF @ = 0 THEN 0 ELSE Cardinality({ j \in 1..i : entries[j].v1 # 0 }),
          !.v2 = IF @ = 0 THEN 0 ELSE Cardinality({ j \in 1..i : entries[j].v2 # 0 })]]

\* The entries of the table report for the cell (ti, ri, ci) (lines 807-814)
CellReport(Lt, Rt, ti, ri, ci) ==
    LET inL == HasCell(Lt, ti, ri, ci)
        inR == HasCell(Rt, ti, ri, ci)
        entry(status) == <<[table |-> ti, row |-> ri, col |-> ci, status |-> status]>>
    IN  IF ~inL /\ inR THEN entry("ADDED")
        ELSE IF inL /\ ~inR THEN entry("REMOVED")
        ELSE IF ~inL THEN <<>>
        ELSE LET a == Trim(Lt[ti][ri].cells[ci].textContent)
                 b == Trim(Rt[ti][ri].cells[ci].textContent)
             IN  IF a # <<>> /\ b # <<>> /\ a # b THEN entry("MODIFIED") ELSE <<>>

\* The entries of the table report for the row (ti, ri) (lines 800-815)
RowReport(Lt, Rt, ti, ri) ==
    LET inL == ri \in DOMAIN Lt[ti]
        inR == ri \in DOMAIN Rt[ti]
    IN  IF ~inL /\ inR THEN <<[table |-> ti, row |-> ri, col |-> 0, status |-> "ADDED"]>>
        ELSE IF inL /\ ~inR
          THEN <<[table |-> ti, row |-> ri, col |-> 0, status |-> "REMOVED"]>>
        ELSE LET ccount == Max(Len(Lt[ti][ri].cells), Len(Rt[ti][ri].cells))
             IN  Concat([ci \in 1..ccount |-> CellReport(Lt, Rt, ti, ri, ci)])

\* The entries of the table report for the table ti (lines 792-816)
TableReport(Lt, Rt, ti) ==
    IF ti \notin DOMAIN Lt /\ ti \in DOMAIN Rt
      THEN <<[table |-> ti, row |-> 0, col |-> 0, status |-> "ADDED"]>>
    ELSE IF ti \in DOMAIN Lt /\ ti \notin DOMAIN Rt
      THEN <<[table |-> ti, row |-> 0, col |-> 0, status |-> "REMOVED"]>>
    ELSE Concat([ri \in 1..Max(Len(Lt[ti]), Len(Rt[ti])) |-> RowReport(Lt, Rt, ti, ri)])

\* The entries of the image report for index i (lines 825-828)
ImageReport(Li, Ri, i) ==
    LET a == IF i \in DOMAIN Li THEN Li[i].src ELSE ""
        b == IF i \in DOMAIN Ri THEN Ri[i].src ELSE ""
    IN  IF a # "" /\ b = "" THEN <<[index |-> i, status |-> "REMOVED", from |-> a, to |-> ""]>>
        ELSE IF a = "" /\ b # ""
          THEN <<[index |-> i, status |-> "ADDED", from |-> "", to |-> b]>>
        ELSE IF a # "" /\ b # "" /\ a # b
          THEN <<[index |-> i, status |-> "REPLACED", from |-> a, to |-> b]>>
        ELSE <<>>

ReportTextsOf(lines) == [i \in DOMAIN lines |-> lines[i].text]

\* generateDetailedReport once diffArrays has returned ps
generateDetailedReport(lHtml, rHtml, ps) ==
    LET L == htmlToDiv(lHtml)
        R == htmlToDiv(rHtml)
        leftLines == collectBlockLinesWithFormat(L)
        rightLines == collectBlockLinesWithFormat(R)
        tcount == Max(Len(L.tables), Len(R.tables))
        imax == Max(Len(L.imgs), Len(R.imgs))
    IN  [lines |-> NumberLines(ReportFrom(leftLines, rightLines, ps, 1, 0, 0)),
         tables |-> Concat([ti \in 1..tcount |-> TableReport(L.tables, R.tables, ti)]),
         images |-> Concat([i \in 1..imax |-> ImageReport(L.imgs, R.imgs, i)])]

----------------------------------------------------------------------------
\* compareDocuments

\* The value of each change object: the characters it covers, taken from the new
\* string for added and common characters and from the old string for removed ones
RECURSIVE WithValues(_, _, _, _, _)
WithValues(comps, oldStr, newStr, oldPos, newPos) ==
    IF comps = <<>> THEN <<>>
    ELSE
      LET c == Head(comps)
          v(value) == [added |-> c.added, removed |-> c.removed, count |-> c.count,
                       value |-> value]
      IN  IF c.added
            THEN <<v(SubSeq(newStr, newPos + 1, newPos + c.count))>>
                 \o WithValues(Tail(comps), oldStr, newStr, oldPos, newPos + c.count)
          ELSE IF c.removed
            THEN <<v(SubSeq(oldStr, oldPos + 1, oldPos + c.count))>>
                 \o WithValues(Tail(comps), oldStr, newStr, oldPos + c.count, newPos)
          ELSE <<v(SubSeq(newStr, newPos + 1, newPos + c.count))>>
               \o WithValues(Tail(comps), oldStr, newStr, oldPos + c.count, newPos + c.count)

\* diffChars(oldStr, newStr): the change objects of a shortest edit script over the
\* characters; which shortest script the library returns is left open
diffChars(oldStr, newStr) ==
    { RemovesFirst(WithValues(Components(p), oldStr, newStr, 0, 0), 1) :
        p \in EditPathsExact(oldStr, newStr) }

\* Mutant: common text is pushed to leftDiffs only
compareDocumentsEqualLeftOnly(lText, rText, diffs) ==
    LET left(d) == IF d.added THEN <<>>
                   ELSE IF d.removed THEN <<[type |-> "delete", content |-> d.value]>>
                   ELSE <<[type |-> "equal", content |-> d.value]>>
        right(d) == IF d.added THEN <<[type |-> "insert", content |-> d.value]>> ELSE <<>>
        additions == Cardinality({ i \in DOMAIN diffs : diffs[i].added })
        deletions == Cardinality({ i \in DOMAIN diffs : diffs[i].removed })
    IN  [leftDiffs |-> Concat([i \in DOMAIN diffs |-> left(diffs[i])]),
         rightDiffs |-> Concat([i \in DOMAIN diffs |-> right(diffs[i])]),
         summary |-> [additions |-> additions, deletions |-> deletions,
                      changes |-> additions + deletions]]

\* compareDocuments once diffChars has returned diffs (lines 5-23)
compareDocuments(lText, rText, diffs) ==
    LET left(d) == IF d.added THEN <<>>
                   ELSE IF d.removed THEN <<[type |-> "delete", content |-> d.value]>>
                   ELSE <<[type |-> "equal", content |-> d.value]>>
        right(d) == IF d.added THEN <<[type |-> "insert", content |-> d.value]>>
                    ELSE IF d.removed THEN <<>>
                    ELSE <<[type |-> "equal", content |-> d.value]>>
        additions == Cardinality({ i \in DOMAIN diffs : diffs[i].added })
        deletions == Cardinality({ i \in DOMAIN diffs : diffs[i].removed })
    IN  [leftDiffs |-> Concat([i \in DOMAIN diffs |-> left(diffs[i])]),
         rightDiffs |-> Concat([i \in DOMAIN diffs |-> right(diffs[i])]),
         summary |-> [additions |-> additions, deletions |-> deletions,
                      changes |-> additions + deletions]]

----------------------------------------------------------------------------
\* compareHtmlDocuments

NoRows == [left |-> <<>>, right |-> <<>>]
NoCounts == [additions |-> 0, deletions |-> 0]
NoSummary == [additions |-> 0, deletions |-> 0, changes |-> 0]

\* Mutant: the texts are compared without trimming
IsIdenticalUntrimmed(lHtml, rHtml) == extractPlainText(lHtml) = extractPlainText(rHtml)

\* The test of line 31
IsIdentical(lHtml, rHtml) == Trim(extractPlainText(lHtml)) = Trim(extractPlainText(rHtml))

\* Mutant: changes counts the additions only
SumSummaryAdditionsOnly(struct, text) ==
    LET additions == struct.additions + text.additions
        deletions == struct.deletions + text.deletions
    IN  [additions |-> additions, deletions |-> deletions, changes |-> additions]

\* Lines 44-52
SumSummary(struct, text) ==
    LET additions == struct.additions + text.additions
        deletions == struct.deletions + text.deletions
    IN  [additions |-> additions, deletions |-> deletions, changes |-> additions + deletions]

NoReport == [lines |-> <<>>, tables |-> <<>>, images |-> <<>>]
NoLines == [ownLines |-> <<>>, otherLines |-> <<>>, leftLines |-> <<>>, rightLines |-> <<>>]

\* compareFormat has not been called
FormatIdle ==
    /\ lFmt = Null
    /\ rFmt = Null
    /\ changes = <<>>

\* The two FileUpload slots of App
Positions == { "left", "right" }

\* The state of the components after their first render (the useState initial values)
Mounted ==
    /\ leftDocument = Null
    /\ rightDocument = Null
    /\ comparison = Null
    /\ viewMode = "preview"
    /\ showDetailed = FALSE
    /\ isComparing = FALSE
    /\ isProcessing = [position \in Positions |-> FALSE]
    /\ error = [position \in Positions |-> ""]
    /\ calls = {}
    /\ events = 0

\* What every initial state fixes: nothing has been computed or returned
Fresh ==
    /\ pc = "start"
    /\ parts = <<>>
    /\ alignedDiff = NoRows
    /\ textSummary = NoCounts
    /\ structSummary = NoCounts
    /\ leftDiffs = NoDoc
    /\ rightDiffs = NoDoc
    /\ summary = NoSummary
    /\ detailed = NoReport
    /\ collected = NoLines

Init ==
    /\ leftHtml \in DocsOfSize(MaxSize)
    /\ rightHtml \in DocsOfSize(MaxSize - DocSize(leftHtml))
    /\ leftText = <<>>
    /\ rightText = <<>>
    /\ Fresh
    /\ FormatIdle
    /\ Mounted

\* Mutant: the short-circuit returns the extracted text instead of the html
CompareIdenticalTextOnly ==
    /\ pc = "start"
    /\ IsIdentical(leftHtml, rightHtml)
    /\ leftDiffs' = [leftHtml EXCEPT !.imgs = <<>>, !.tables = <<>>]
    /\ rightDiffs' = [rightHtml EXCEPT !.imgs = <<>>, !.tables = <<>>]
    /\ summary' = [additions |-> 0, deletions |-> 0, changes |-> 0]
    /\ detailed' = [lines |-> <<>>, tables |-> <<>>, images |-> <<>>]
    /\ pc' = "identical"
    /\ UNCHANGED <<formatVars, uiVars, leftHtml, rightHtml,
                   parts, alignedDiff, textSummary, structSummary,
                   collected, leftText, rightText>>

\* compareHtmlDocuments(leftHtml, rightHtml), lines 31-38: the texts are identical
CompareIdentical ==
    /\ pc = "start"
    /\ IsIdentical(leftHtml, rightHtml)
    /\ leftDiffs' = leftHtml
    /\ rightDiffs' = rightHtml
    /\ summary' = [additions |-> 0, deletions |-> 0, changes |-> 0]
    /\ detailed' = [lines |-> <<>>, tables |-> <<>>, images |-> <<>>]
    /\ pc' = "identical"
    /\ UNCHANGED <<formatVars, uiVars, leftHtml, rightHtml,
                   parts, alignedDiff, textSummary, structSummary,
                   collected, leftText, rightText>>

\* Mutant: the annotation is written into the caller's documents
CompareFullInPlace ==
    /\ pc = "start"
    /\ ~IsIdentical(leftHtml, rightHtml)
    /\ LET img == applyImageDiffOutlines(leftHtml, rightHtml)
           leftWithTable ==
               applyTableCellDiffs(img.leftDomWithImages, img.rightDomWithImages, "left")
           rightWithTable ==
               applyTableCellDiffs(img.rightDomWithImages, img.leftDomWithImages, "right")
           ownLines == collectLinesWithStructure(htmlToDiv(leftWithTable))
           otherLines == collectLinesWithStructure(htmlToDiv(rightWithTable))
           leftLines == collectBlockLinesWithFormat(htmlToDiv(leftHtml))
           rightLines == collectBlockLinesWithFormat(htmlToDiv(rightHtml))
       IN  \E ps \in diffArrays(LineTextsOf(ownLines), LineTextsOf(otherLines)) :
           \E rs \in diffArraysExact(ReportTextsOf(leftLines), ReportTextsOf(rightLines)) :
             LET res == createTrueLineAlignment(ownLines, otherLines, ps)
             IN  /\ parts' = ps
                 /\ alignedDiff' = res.alignedDiff
                 /\ textSummary' = res.summary
                 /\ structSummary' = img.structSummary
                 /\ leftDiffs' =
                      applyLineByLineDiffToDOM(leftWithTable, res.alignedDiff.left, "left")
                 /\ rightDiffs' =
                      applyLineByLineDiffToDOM(rightWithTable, res.alignedDiff.right, "right")
                 /\ summary' = SumSummary(img.structSummary, res.summary)
                 /\ detailed' = generateDetailedReport(leftHtml, rightHtml, rs)
                 /\ collected' = [ownLines |-> ownLines, otherLines |-> otherLines,
                                  leftLines |-> leftLines, rightLines |-> rightLines]
                 /\ leftHtml' =
                      applyLineByLineDiffToDOM(leftWithTable, res.alignedDiff.left, "left")
                 /\ rightHtml' =
                      applyLineByLineDiffToDOM(rightWithTable, res.alignedDiff.right, "right")
    /\ pc' = "full"
    /\ UNCHANGED <<formatVars, uiVars, leftText, rightText>>

\* compareHtmlDocuments(leftHtml, rightHtml), lines 40-59: the full comparison
CompareFull ==
    /\ pc = "start"
    /\ ~IsIdentical(leftHtml, rightHtml)
    /\ LET img == applyImageDiffOutlines(leftHtml, rightHtml)
           leftWithTable ==
               applyTableCellDiffs(img.leftDomWithImages, img.rightDomWithImages, "left")
           rightWithTable ==
               applyTableCellDiffs(img.rightDomWithImages, img.leftDomWithImages, "right")
           ownLines == collectLinesWithStructure(htmlToDiv(leftWithTable))
           otherLines == collectLinesWithStructure(htmlToDiv(rightWithTable))
           leftLines == collectBlockLinesWithFormat(htmlToDiv(leftHtml))
           rightLines == collectBlockLinesWithFormat(htmlToDiv(rightHtml))
       IN  \E ps \in diffArrays(LineTextsOf(ownLines), LineTextsOf(otherLines)) :
           \E rs \in diffArraysExact(ReportTextsOf(leftLines), ReportTextsOf(rightLines)) :
             LET res == createTrueLineAlignment(ownLines, otherLines, ps)
             IN  /\ parts' = ps
                 /\ alignedDiff' = res.alignedDiff
                 /\ textSummary' = res.summary
                 /\ structSummary' = img.structSummary
                 /\ leftDiffs' =
                      applyLineByLineDiffToDOM(leftWithTable, res.alignedDiff.left, "left")
                 /\ rightDiffs' =
                      applyLineByLineDiffToDOM(rightWithTable, res.alignedDiff.right, "right")
                 /\ summary' = SumSummary(img.structSummary, res.summary)
                 /\ detailed' = generateDetailedReport(leftHtml, rightHtml, rs)
                 /\ collected' = [ownLines |-> ownLines, otherLines |-> otherLines,
                                  leftLines |-> leftLines, rightLines |-> rightLines]
    /\ pc' = "full"
    /\ UNCHANGED <<formatVars, uiVars, leftHtml, rightHtml,
                   leftText, rightText>>

\* The rows for which applyLineByLineDiffToDOM touches the DOM
Annotates(diffLine) == diffLine.type \in { "removed", "added", "modified", "placeholder" }

\* compareHtmlDocuments(leftHtml, rightHtml) when a DOM call made for one row of
\* applyLineByLineDiffToDOM throws: nothing between the forEach callback (lines
\* 388-469) and the caller of compareHtmlDocuments catches, so no value is returned
CompareFullThrows ==
    /\ pc = "start"
    /\ ~IsIdentical(leftHtml, rightHtml)
    /\ LET img == applyImageDiffOutlines(leftHtml, rightHtml)
           leftWithTable ==
               applyTableCellDiffs(img.leftDomWithImages, img.rightDomWithImages, "left")
           rightWithTable ==
               applyTableCellDiffs(img.rightDomWithImages, img.leftDomWithImages, "right")
           ownLines == collectLinesWithStructure(htmlToDiv(leftWithTable))
           otherLines == collectLinesWithStructure(htmlToDiv(rightWithTable))
       IN  \E ps \in diffArrays(LineTextsOf(ownLines), LineTextsOf(otherLines)) :
             LET res == createTrueLineAlignment(ownLines, otherLines, ps)
             IN  /\ \/ \E i \in DOMAIN res.alignedDiff.left :
                          Annotates(res.alignedDiff.left[i])
                    \/ \E i \in DOMAIN res.alignedDiff.right :
                          Annotates(res.alignedDiff.right[i])
                 /\ parts' = ps
                 /\ alignedDiff' = res.alignedDiff
                 /\ textSummary' = res.summary
                 /\ structSummary' = img.structSummary
                 /\ collected' = [collected EXCEPT !.ownLines = ownLines,
                                                   !.otherLines = otherLines]
    /\ pc' = "threw"
    /\ UNCHANGED <<formatVars, uiVars, leftHtml, rightHtml,
                   leftDiffs, rightDiffs, summary, detailed,
                   leftText, rightText>>

\* createTrueLineAlignment applied to the lines of the two documents
CallCreateTrueLineAlignment ==
    /\ pc = "start"
    /\ LET leftLines == collectLinesWithStructure(leftHtml)
           rightLines == collectLinesWithStructure(rightHtml)
       IN  \E ps \in diffArrays(LineTextsOf(leftLines), LineTextsOf(rightLines)) :
             LET res == createTrueLineAlignment(leftLines, rightLines, ps)
             IN  /\ parts' = ps
                 /\ alignedDiff' = res.alignedDiff
                 /\ textSummary' = res.summary
                 /\ collected' = [collected EXCEPT !.ownLines = leftLines,
                                                   !.otherLines = rightLines]
    /\ pc' = "aligned"
    /\ UNCHANGED <<formatVars, uiVars, leftHtml, rightHtml,
                   structSummary, leftDiffs, rightDiffs, summary,
                   detailed, leftText, rightText>>

Next ==
    \/ CompareIdentical
    \/ CompareFull
    \/ CompareFullThrows
    \/ CallCreateTrueLineAlignment

Spec == Init /\ [][Next]_vars

\* compareDocuments(leftText, rightText)
CompareDocuments ==
    /\ pc = "start"
    /\ \E diffs \in diffChars(leftText, rightText) :
          LET res == compareDocuments(leftText, rightText, diffs)
          IN  /\ parts' = diffs
              /\ leftDiffs' = res.leftDiffs
              /\ rightDiffs' = res.rightDiffs
              /\ summary' = res.summary
    /\ pc' = "diffed"
    /\ UNCHANGED <<formatVars, uiVars, leftHtml, rightHtml,
                   alignedDiff, textSummary, structSummary, detailed,
                   collected, leftText, rightText>>

\* compareDocuments called with two plain texts
InitText ==
    /\ leftText \in SeqsUpTo(Chars, MaxChars)
    /\ rightText \in SeqsUpTo(Chars, MaxChars)
    /\ leftHtml = NoDoc
    /\ rightHtml = NoDoc
    /\ Fresh
    /\ FormatIdle
    /\ Mounted

NextText == CompareDocuments

SpecText == InitText /\ [][NextText]_vars

\* compareHtmlDocuments called with null for one or both documents
InitNull ==
    /\ leftHtml \in DocsOfSize(MaxSize) \cup { Null }
    /\ rightHtml \in DocsOfSize(MaxSize) \cup { Null }
    /\ leftHtml = Null \/ rightHtml = Null
    /\ leftText = <<>>
    /\ rightText = <<>>
    /\ Fresh
    /\ FormatIdle
    /\ Mounted

NextNull ==
    \/ CompareIdentical
    \/ CompareFull
    \/ CompareFullThrows

SpecNull == InitNull /\ [][NextNull]_vars

\* The format records compareFormat is called with: every attribute is set,
\* unset (false, '') or absent from the record
FontSizes == { "", "12px" }
TextAligns == { "", "center" }
FormatKeys == { "hasBold", "hasItalic", "hasUnderline", "fontSize", "textAlign" }
FullFormats ==
    [hasBold : BOOLEAN, hasItalic : BOOLEAN, hasUnderline : BOOLEAN,
     fontSize : FontSizes, textAlign : TextAligns]
Formats == { [key \in keys |-> f[key]] : f \in FullFormats, keys \in SUBSET FormatKeys }

\* compareFormat(lFmt, rFmt)
CompareFormat ==
    /\ pc = "start"
    /\ changes' = compareFormat(lFmt, rFmt)
    /\ pc' = "compared"
    /\ UNCHANGED <<uiVars, lFmt, rFmt, leftHtml, rightHtml, parts, alignedDiff, textSummary,
                   structSummary, leftDiffs, rightDiffs, summary, detailed, collected,
                   leftText, rightText>>

\* compareFormat called with two format records
InitFormat ==
    /\ lFmt \in Formats
    /\ rFmt \in Formats
    /\ changes = <<>>
    /\ leftHtml = NoDoc
    /\ rightHtml = NoDoc
    /\ leftText = <<>>
    /\ rightText = <<>>
    /\ Fresh
    /\ Mounted

NextFormat == CompareFormat

SpecFormat == InitFormat /\ [][NextFormat]_vars

----------------------------------------------------------------------------
\* App, FileUpload and useDocumentComparison

\* Nothing of the comparison engine is running
EngineIdle ==
    /\ leftHtml = NoDoc
    /\ rightHtml = NoDoc
    /\ leftText = <<>>
    /\ rightText = <<>>
    /\ Fresh

\* The files the user drops or selects: name (stem and extension) and MIME type
Files ==
    { [stem |-> "a", extension |-> ".docx",
       type |-> "application/vnd.openxmlformats-officedocument.wordprocessingml.document"],
      [stem |-> "b", extension |-> ".DOC", type |-> ""],
      [stem |-> "c", extension |-> ".txt", type |-> "text/plain"] }

\* file.name.toLowerCase(), for the extensions of Files
ToLowerCase(extension) == IF extension = ".DOC" THEN ".doc" ELSE extension

\* validateFile(file)
validateFile(file) ==
    LET validTypes ==
            { "application/vnd.openxmlformats-officedocument.wordprocessingml.document",
              "application/msword" }
        validExtensions == { ".docx", ".doc" }
        hasValidType == file.type \in validTypes
        hasValidExtension == ToLowerCase(file.extension) \in validExtensions
    IN  hasValidType \/ hasValidExtension

\* The documentData object handleFile builds from a parsed file; the id is fresh,
\* here the number of the user event that supplied the file
DocumentData(file, id) ==
    [id |-> id, name |-> <<file.stem, file.extension>>, htmlContent |-> <<"html", file.stem>>,
     originalHtmlContent |-> <<"html", file.stem>>, file |-> file]

\* The value compareHtmlDocuments returns for the contents of two documents, named
\* by the documents it was computed from
ResultOf(left, right) == [left |-> left, right |-> right]

\* Mutant: an upload leaves the comparison as it is
HandleDocumentUploadKeepsComparison(document, position) ==
    /\ leftDocument' = IF position = "left" THEN document ELSE leftDocument
    /\ rightDocument' = IF position = "left" THEN rightDocument ELSE document
    /\ comparison' = comparison
    /\ viewMode' = "preview"

\* App: handleDocumentUpload(document, position)
HandleDocumentUpload(document, position) ==
    /\ leftDocument' = IF position = "left" THEN document ELSE leftDocument
    /\ rightDocument' = IF position = "left" THEN rightDocument ELSE document
    /\ comparison' = Null
    /\ viewMode' = "preview"

\* FileUpload: handleFile(file) up to its await
HandleFile(file, position) ==
    IF ~validateFile(file)
      THEN /\ error' = [error EXCEPT
                          ![position] = "Please upload a valid Word document (.docx or .doc)"]
           /\ UNCHANGED <<isProcessing, calls>>
      ELSE /\ error' = [error EXCEPT ![position] = ""]
           /\ isProcessing' = [isProcessing EXCEPT ![position] = TRUE]
           /\ calls' = calls \cup { [kind |-> "parse", file |-> file, position |-> position,
                                      event |-> events + 1] }

\* FileUpload: handleDrop(e) with e.dataTransfer.files[0] = file (App passes no
\* disabled prop)
HandleDrop(file, position) ==
    /\ events < MaxEvents
    /\ HandleFile(file, position)
    /\ events' = events + 1
    /\ UNCHANGED <<engineVars, formatVars, leftDocument, rightDocument, comparison,
                   viewMode, showDetailed, isComparing>>

\* FileUpload: handleFileSelect(e) with e.target.files[0] = file; the input is
\* disabled while isProcessing
HandleFileSelect(file, position) ==
    /\ events < MaxEvents
    /\ ~isProcessing[position]
    /\ HandleFile(file, position)
    /\ events' = events + 1
    /\ UNCHANGED <<engineVars, formatVars, leftDocument, rightDocument, comparison,
                   viewMode, showDetailed, isComparing>>

\* FileUpload: handleFile after parseWordDocument resolved (lines 521-530, 534)
ParseResolves(call) ==
    /\ call \in calls
    /\ call.kind = "parse"
    /\ HandleDocumentUpload(DocumentData(call.file, call.event), call.position)
    /\ isProcessing' = [isProcessing EXCEPT ![call.position] = FALSE]
    /\ calls' = calls \ { call }
    /\ UNCHANGED <<engineVars, formatVars, showDetailed, isComparing, error, events>>

\* FileUpload: handleFile after parseWordDocument rejected (lines 531-534)
ParseRejects(call) ==
    /\ call \in calls
    /\ call.kind = "parse"
    /\ error' = [error EXCEPT ![call.position] = "Failed to process document"]
    /\ isProcessing' = [isProcessing EXCEPT ![call.position] = FALSE]
    /\ calls' = calls \ { call }
    /\ UNCHANGED <<engineVars, formatVars, leftDocument, rightDocument, comparison,
                   viewMode, showDetailed, isComparing, events>>

\* App: canCompare
canCompare == leftDocument # Null /\ rightDocument # Null

\* App: handleCompareDocuments(), the click on "Compare Documents"
HandleCompareDocuments ==
    /\ events < MaxEvents
    /\ leftDocument # Null /\ rightDocument # Null
    /\ comparison' = ResultOf(leftDocument, rightDocument)
    /\ viewMode' = "comparison"
    /\ events' = events + 1
    /\ UNCHANGED <<engineVars, formatVars, leftDocument, rightDocument, showDetailed,
                   isComparing, isProcessing, error, calls>>

\* App: clearDocuments(), the click on "Clear All"
ClearDocuments ==
    /\ events < MaxEvents
    /\ leftDocument' = Null
    /\ rightDocument' = Null
    /\ comparison' = Null
    /\ events' = events + 1
    /\ UNCHANGED <<engineVars, formatVars, viewMode, showDetailed, isComparing,
                   isProcessing, error, calls>>

\* App: the "Preview" and "Comparison" buttons, rendered when canCompare; the
\* second one is disabled while there is no comparison
SetViewMode(mode) ==
    /\ events < MaxEvents
    /\ canCompare
    /\ mode = "comparison" => comparison # Null
    /\ viewMode' = mode
    /\ events' = events + 1
    /\ UNCHANGED <<engineVars, formatVars, leftDocument, rightDocument, comparison,
                   showDetailed, isComparing, isProcessing, error, calls>>

\* App: the "Show details" button, rendered when canCompare and comparison
ToggleShowDetailed ==
    /\ events < MaxEvents
    /\ canCompare
    /\ comparison # Null
    /\ showDetailed' = ~showDetailed
    /\ events' = events + 1
    /\ UNCHANGED <<engineVars, formatVars, leftDocument, rightDocument, comparison,
                   viewMode, isComparing, isProcessing, error, calls>>

InitApp ==
    /\ EngineIdle
    /\ FormatIdle
    /\ Mounted

NextApp ==
    \/ \E file \in Files, position \in Positions : HandleDrop(file, position)
    \/ \E file \in Files, position \in Positions : HandleFileSelect(file, position)
    \/ \E call \in calls : ParseResolves(call)
    \/ \E call \in calls : ParseRejects(call)
    \/ HandleCompareDocuments
    \/ ClearDocuments
    \/ \E mode \in { "preview", "comparison" } : SetViewMode(mode)
    \/ ToggleShowDetailed

SpecApp == InitApp /\ [][NextApp]_vars

\* One FileUpload slot of App on its own: files are dropped on or selected in the
\* left slot and their parses complete in any order
InitUpload ==
    /\ EngineIdle
    /\ FormatIdle
    /\ Mounted

NextUpload ==
    \/ \E file \in Files : HandleDrop(file, "left")
    \/ \E file \in Files : HandleFileSelect(file, "left")
    \/ \E call \in calls : ParseResolves(call)
    \/ \E call \in calls : ParseRejects(call)

SpecUpload == InitUpload /\ [][NextUpload]_vars

\* useDocumentComparison: handleDocumentUpload(document, position), called with the
\* document of a parsed file
HookHandleDocumentUpload(file, position) ==
    /\ events < MaxEvents
    /\ validateFile(file)
    /\ LET document == DocumentData(file, events + 1)
       IN  /\ leftDocument' = IF position = "left" THEN document ELSE leftDocument
           /\ rightDocument' = IF position = "left" THEN rightDocument ELSE document
    /\ comparison' = Null
    /\ events' = events + 1
    /\ UNCHANGED <<engineVars, formatVars, viewMode, showDetailed, isComparing,
                   isProcessing, error, calls>>

\* useDocumentComparison: compareDocuments() up to its await (lines 300-305); the
\* call keeps the documents of the render it was created in
HookCompareDocuments ==
    /\ events < MaxEvents
    /\ leftDocument # Null /\ rightDocument # Null
    /\ isComparing' = TRUE
    /\ calls' = calls \cup { [kind |-> "compare", left |-> leftDocument,
                               right |-> rightDocument, event |-> events + 1] }
    /\ events' = events + 1
    /\ UNCHANGED <<engineVars, formatVars, leftDocument, rightDocument, comparison,
                   viewMode, showDetailed, isProcessing, error>>

\* useDocumentComparison: compareDocuments() after the timer fired (lines 307-311, 316)
HookCompareResumes(call) ==
    /\ call \in calls
    /\ call.kind = "compare"
    /\ comparison' = ResultOf(call.left, call.right)
    /\ isComparing' = FALSE
    /\ calls' = calls \ { call }
    /\ UNCHANGED <<engineVars, formatVars, leftDocument, rightDocument, viewMode,
                   showDetailed, isProcessing, error, events>>

\* useDocumentComparison: compareDocuments() after the timer fired, when
\* compareHtmlDocuments throws (lines 312-316)
HookCompareThrows(call) ==
    /\ call \in calls
    /\ call.kind = "compare"
    /\ isComparing' = FALSE
    /\ calls' = calls \ { call }
    /\ UNCHANGED <<engineVars, formatVars, leftDocument, rightDocument, comparison,
                   viewMode, showDetailed, isProcessing, error, events>>

\* useDocumentComparison: clearDocuments()
HookClearDocuments ==
    /\ events < MaxEvents
    /\ leftDocument' = Null
    /\ rightDocument' = Null
    /\ comparison' = Null
    /\ events' = events + 1
    /\ UNCHANGED <<engineVars, formatVars, viewMode, showDetailed, isComparing,
                   isProcessing, error, calls>>

\* useDocumentComparison: clearComparison()
HookClearComparison ==
    /\ events < MaxEvents
    /\ comparison' = Null
    /\ events' = events + 1
    /\ UNCHANGED <<engineVars, formatVars, leftDocument, rightDocument, viewMode,
                   showDetailed, isComparing, isProcessing, error, calls>>

InitHook ==
    /\ EngineIdle
    /\ FormatIdle
    /\ Mounted

NextHook ==
    \/ \E file \in Files, position \in Positions : HookHandleDocumentUpload(file, position)
    \/ HookCompareDocuments
    \/ \E call \in calls : HookCompareResumes(call)
    \/ \E call \in calls : HookCompareThrows(call)
    \/ HookClearDocuments
    \/ HookClearComparison

SpecHook == InitHook /\ [][NextHook]_vars

----------------------------------------------------------------------------
\* Properties

Returned == pc \in {"identical", "full"}
Aligned == pc \in {"aligned", "full"}

LeftLines == collectLinesWithStructure(leftHtml)
RightLines == collectLinesWithStructure(rightHtml)

\* C1: the returned summary satisfies changes = additions + deletions on both paths,
\* and on the full path additions and deletions are the sums of the image-level and
\* the line-level counts.
C1_SummaryConsistent ==
    Returned =>
      /\ summary.changes = summary.additions + summary.deletions
      /\ pc = "identical" => summary.additions = 0 /\ summary.deletions = 0
      /\ pc = "full" =>
            /\ summary.additions = structSummary.additions + textSummary.additions
            /\ summary.deletions = structSummary.deletions + textSummary.deletions

C1_Witness ==
    /\ pc = "full"
    /\ structSummary.additions > 0
    /\ textSummary.deletions > 0
    /\ summary.changes > summary.additions

\* C2: for every row typed modified and every table cell marked modified, the text of
\* the annotated element equals the text the element had in its own input document.
C2_OwnTextOnly ==
    pc = "full" =>
      /\ \A i \in DOMAIN alignedDiff.left :
            alignedDiff.left[i].type = "modified" =>
              leftDiffs.lines[i].textContent
                = leftHtml.lines[alignedDiff.left[i].element].textContent
      /\ \A i \in DOMAIN alignedDiff.right :
            alignedDiff.right[i].type = "modified" =>
              rightDiffs.lines[i].textContent
                = rightHtml.lines[alignedDiff.right[i].element].textContent
      /\ \A t \in DOMAIN leftDiffs.tables : \A r \in DOMAIN leftDiffs.tables[t] :
            \A c \in DOMAIN leftDiffs.tables[t][r].cells :
              "git-cell-modified" \in leftDiffs.tables[t][r].cells[c].classList =>
                leftDiffs.tables[t][r].cells[c].textContent
                  = leftHtml.tables[t][r].cells[c].textContent
      /\ \A t \in DOMAIN rightDiffs.tables : \A r \in DOMAIN rightDiffs.tables[t] :
            \A c \in DOMAIN rightDiffs.tables[t][r].cells :
              "git-cell-modified" \in rightDiffs.tables[t][r].cells[c].classList =>
                rightDiffs.tables[t][r].cells[c].textContent
                  = rightHtml.tables[t][r].cells[c].textContent

\* C3: each result of createTrueLineAlignment, with its placeholder rows deleted, lists
\* the input lines of its side, each once and in the original order.
LinesOfRows(rows) == SelectSeq(rows, LAMBDA row : row.type # "placeholder")

ListsExactly(rows, lines) ==
    /\ Len(LinesOfRows(rows)) = Len(lines)
    /\ \A i \in DOMAIN lines :
          /\ LinesOfRows(rows)[i].element = lines[i].element
          /\ LinesOfRows(rows)[i].content = lines[i].text

C3_RunCoverage ==
    Aligned =>
      /\ ListsExactly(alignedDiff.left, LeftLines)
      /\ ListsExactly(alignedDiff.right, RightLines)

C3_Witness ==
    /\ pc = "aligned"
    /\ Len(LeftLines) = 2
    /\ Len(RightLines) = 2
    /\ \E i \in DOMAIN alignedDiff.left : alignedDiff.left[i].type = "placeholder"
    /\ \E i \in DOMAIN alignedDiff.right : alignedDiff.right[i].type = "placeholder"

\* C4: compareHtmlDocuments(T, T) returns the zero summary and both outputs are T.
C4_NoOpComparison ==
    (Returned /\ leftHtml = rightHtml) =>
      /\ summary = [additions |-> 0, deletions |-> 0, changes |-> 0]
      /\ leftDiffs = leftHtml
      /\ rightDiffs = rightHtml

C4_Witness ==
    /\ Returned
    /\ leftHtml = rightHtml
    /\ Len(leftHtml.lines) > 0
    /\ Len(leftHtml.imgs) > 0

\* The removed segments of parts that are immediately followed by an added segment,
\* each with the indices the loop of createTrueLineAlignment has when it reaches it:
\* iLeft, iRight, the number of rows pushed so far, and the two segment lengths.
RECURSIVE PairedBlocksFrom(_, _, _, _, _)
PairedBlocksFrom(ps, p, iLeft, iRight, row) ==
    IF p > Len(ps) THEN {}
    ELSE IF ps[p].added
      THEN PairedBlocksFrom(ps, p + 1, iLeft, iRight + ps[p].count, row + ps[p].count)
    ELSE IF ps[p].removed
      THEN IF p + 1 <= Len(ps) /\ ps[p + 1].added
             THEN { [iLeft |-> iLeft, iRight |-> iRight, row |-> row,
                     R |-> ps[p].count, A |-> ps[p + 1].count] }
                  \cup PairedBlocksFrom(ps, p + 2, iLeft + ps[p].count,
                                        iRight + ps[p + 1].count,
                                        row + Max(ps[p].count, ps[p + 1].count))
             ELSE PairedBlocksFrom(ps, p + 1, iLeft + ps[p].count, iRight, row + ps[p].count)
    ELSE PairedBlocksFrom(ps, p + 1, iLeft + ps[p].count, iRight + ps[p].count,
                          row + ps[p].count)

PairedBlocks == PairedBlocksFrom(parts, 1, 0, 0, 0)

\* Rows row + 1 .. row + min(R, A) of both results hold position k of the removed
\* segment opposite position k of the added segment
PairsPositions(b) ==
    \A k \in 1..Min(b.R, b.A) :
      /\ b.row + k \in DOMAIN alignedDiff.left
      /\ b.row + k \in DOMAIN alignedDiff.right
      /\ alignedDiff.left[b.row + k].element = b.iLeft + k
      /\ alignedDiff.right[b.row + k].element = b.iRight + k

\* The rows of the left lines of the removed segment beyond the paired ones
IsLeftoverRemoved(b, j, types) ==
    LET i == b.row + Min(b.R, b.A) + j
    IN  /\ i \in DOMAIN alignedDiff.left
        /\ i \in DOMAIN alignedDiff.right
        /\ alignedDiff.left[i].element = b.iLeft + Min(b.R, b.A) + j
        /\ alignedDiff.left[i].type \in types
        /\ alignedDiff.right[i].type = "placeholder"

\* The rows of the right lines of the added segment beyond the paired ones
IsLeftoverAdded(b, j, types) ==
    LET i == b.row + Min(b.R, b.A) + j
    IN  /\ i \in DOMAIN alignedDiff.left
        /\ i \in DOMAIN alignedDiff.right
        /\ alignedDiff.right[i].element = b.iRight + Min(b.R, b.A) + j
        /\ alignedDiff.right[i].type \in types
        /\ alignedDiff.left[i].type = "placeholder"

ReplacedImages ==
    { i \in DOMAIN leftHtml.imgs \cap DOMAIN rightHtml.imgs :
        leftHtml.imgs[i].src # rightHtml.imgs[i].src }
LeftOnlyImages == DOMAIN leftHtml.imgs \ DOMAIN rightHtml.imgs
RightOnlyImages == DOMAIN rightHtml.imgs \ DOMAIN leftHtml.imgs

\* C6: every image whose src differs between the two documents at the same index is
\* counted as one addition and one deletion in the returned summary, whatever else
\* the documents hold.
C6_ReplacedImageCounted ==
    Returned =>
      /\ summary.additions >= Cardinality(ReplacedImages)
      /\ summary.deletions >= Cardinality(ReplacedImages)

\* C7: images are compared at parallel indices: left-only is marked removed (one
\* deletion), right-only is marked added (one addition), different src marks both
\* modified (one addition and one deletion), same src marks nothing and counts nothing.
C7_ImageDiffer ==
    pc = "full" =>
      /\ \A i \in DOMAIN leftHtml.imgs :
            leftDiffs.imgs[i].classList =
              IF i \in LeftOnlyImages THEN {"structural-removed"}
              ELSE IF i \in ReplacedImages THEN {"structural-modified"} ELSE {}
      /\ \A i \in DOMAIN rightHtml.imgs :
            rightDiffs.imgs[i].classList =
              IF i \in RightOnlyImages THEN {"structural-added"}
              ELSE IF i \in ReplacedImages THEN {"structural-modified"} ELSE {}
      /\ structSummary.additions = Cardinality(RightOnlyImages) + Cardinality(ReplacedImages)
      /\ structSummary.deletions = Cardinality(LeftOnlyImages) + Cardinality(ReplacedImages)

C7_Witness ==
    /\ pc = "full"
    /\ ReplacedImages = {1}
    /\ LeftOnlyImages = {2}
    /\ structSummary = [additions |-> 1, deletions |-> 2]

\* C8: table cells are compared at the same (table, row, column): a cell (with text)
\* only in the left document is marked removed and its row is marked removed, a cell
\* (with text) only in the right document is marked added, and a cell in both with
\* different text is marked modified on both sides.
C8_CellDiffer ==
    pc = "full" =>
      /\ \A t \in DOMAIN leftHtml.tables : \A r \in DOMAIN leftHtml.tables[t] :
            \A c \in DOMAIN leftHtml.tables[t][r].cells :
              ( /\ ~HasCell(rightHtml.tables, t, r, c)
                /\ Trim(leftHtml.tables[t][r].cells[c].textContent) # <<>> ) =>
                /\ "git-cell-removed" \in leftDiffs.tables[t][r].cells[c].classList
                /\ "git-line-removed" \in leftDiffs.tables[t][r].classList
      /\ \A t \in DOMAIN rightHtml.tables : \A r \in DOMAIN rightHtml.tables[t] :
            \A c \in DOMAIN rightHtml.tables[t][r].cells :
              /\ ( /\ ~HasCell(leftHtml.tables, t, r, c)
                    /\ Trim(rightHtml.tables[t][r].cells[c].textContent) # <<>> ) =>
                    "git-cell-added" \in rightDiffs.tables[t][r].cells[c].classList
              /\ ( /\ HasCell(leftHtml.tables, t, r, c)
                    /\ Trim(leftHtml.tables[t][r].cells[c].textContent)
                         # Trim(rightHtml.tables[t][r].cells[c].textContent) ) =>
                    /\ "git-cell-modified" \in leftDiffs.tables[t][r].cells[c].classList
                    /\ "git-cell-modified" \in rightDiffs.tables[t][r].cells[c].classList

\* normalize of the specification: lower-case, whitespace runs collapsed to one space,
\* trimmed (the texts of the model hold no curly quote and no dash)
ToCanonicalChar(c) ==
    IF c = "A" THEN "a"
    ELSE IF IsSpace(c) THEN " "
    ELSE c

RECURSIVE CollapseSpaces(_)
CollapseSpaces(s) ==
    IF Len(s) < 2 THEN s
    ELSE IF IsSpace(s[1]) /\ IsSpace(s[2]) THEN CollapseSpaces(Tail(s))
    ELSE <<Head(s)>> \o CollapseSpaces(Tail(s))

Normalize(s) == Trim(CollapseSpaces([i \in DOMAIN s |-> ToCanonicalChar(s[i])]))

AllUnchanged ==
    /\ \A i \in DOMAIN alignedDiff.left : alignedDiff.left[i].type = "unchanged"
    /\ \A i \in DOMAIN alignedDiff.right : alignedDiff.right[i].type = "unchanged"

\* C9: two line sequences whose lines are pairwise equal after normalization are
\* aligned as unchanged, line by line.
C9_NormalizedLinesUnchanged ==
    ( /\ Aligned
      /\ Len(leftHtml.lines) = Len(rightHtml.lines)
      /\ \A i \in DOMAIN leftHtml.lines :
            Normalize(leftHtml.lines[i].textContent)
              = Normalize(rightHtml.lines[i].textContent) )
    => AllUnchanged

\* The pairs (left line, right line) that the pairing loop pairs, with their row
PairedPositions ==
    UNION { { [left |-> LineAt(LeftLines, b.iLeft + k - 1),
               right |-> LineAt(RightLines, b.iRight + k - 1),
               row |-> b.row + k] : k \in 1..Min(b.R, b.A) } : b \in PairedBlocks }

OneEmpty(pr) == (pr.left.text = <<>>) # (pr.right.text = <<>>)

----------------------------------------------------------------------------
----------------------------------------------------------------------------
\* The two documents have the same number of lines and the same text in each line,
\* so that line i of the left document corresponds to line i of the right document
SameLineTexts ==
    /\ Len(leftHtml.lines) = Len(rightHtml.lines)
    /\ \A i \in DOMAIN leftHtml.lines :
          leftHtml.lines[i].textContent = rightHtml.lines[i].textContent

\* C12: a line pair with equal text of which one side only is bold is reported in the
\* detailed report of the comparison as FORMATTING-ONLY with the single format change
\* "bold: off -> on" (or "on -> off"), not as UNCHANGED, and contributes nothing to
\* the additions or deletions.
C12_FormattingOnlyReported ==
    ( Returned /\ SameLineTexts ) =>
      \A i \in DOMAIN leftHtml.lines :
        leftHtml.lines[i].bold # rightHtml.lines[i].bold =>
          /\ \E k \in DOMAIN detailed.lines :
                /\ detailed.lines[k].v1 = i
                /\ detailed.lines[k].v2 = i
                /\ detailed.lines[k].status = "FORMATTING-ONLY"
                /\ detailed.lines[k].formatChanges
                     = << <<"bold", OnOff(leftHtml.lines[i].bold), "->",
                            OnOff(rightHtml.lines[i].bold)>> >>
          /\ textSummary = [additions |-> 0, deletions |-> 0]

----------------------------------------------------------------------------
\* The elements of the document before are all present in the document after, in the
\* same order and nesting: the block elements outside tables that are not inserted
\* placeholders correspond one to one, each with the inline <b> and the nested <p> it
\* had, and so do the tables, rows and cells.
IsomorphicUpToMarkup(before, after) ==
    LET kept == SelectSeq(after.lines, LAMBDA el : ~el.placeholder)
    IN  /\ Len(kept) = Len(before.lines)
        /\ \A i \in DOMAIN before.lines :
              /\ kept[i].bold = before.lines[i].bold
              /\ kept[i].para = before.lines[i].para
        /\ Len(after.imgs) = Len(before.imgs)
        /\ Len(after.tables) = Len(before.tables)
        /\ \A t \in DOMAIN before.tables :
              /\ Len(after.tables[t]) = Len(before.tables[t])
              /\ \A r \in DOMAIN before.tables[t] :
                    /\ Len(after.tables[t][r].cells) = Len(before.tables[t][r].cells)
                    /\ \A c \in DOMAIN before.tables[t][r].cells :
                          /\ after.tables[t][r].cells[c].bold
                               = before.tables[t][r].cells[c].bold
                          /\ after.tables[t][r].cells[c].para
                               = before.tables[t][r].cells[c].para

\* C13: each annotated output document is structurally isomorphic to its input except
\* for injected markup and placeholder nodes: every element of the input, inline
\* formatting elements and nested blocks included, is still present after annotation.
C13_StructurePreserved ==
    Returned =>
      /\ IsomorphicUpToMarkup(leftHtml, leftDiffs)
      /\ IsomorphicUpToMarkup(rightHtml, rightDiffs)

----------------------------------------------------------------------------
\* C14: when annotating one line fails, the comparison goes on with the remaining
\* lines and returns a result: the two documents with all their lines and a summary
\* that counts the lines that were aligned; the comparison as a whole does not fail.
C14_FailureIsolated ==
    pc = "threw" =>
      /\ summary = SumSummary(structSummary, textSummary)
      /\ Len(leftDiffs.lines) >= Len(htmlToDiv(leftHtml).lines)
      /\ Len(rightDiffs.lines) >= Len(htmlToDiv(rightHtml).lines)

----------------------------------------------------------------------------
\* C15: when one or both inputs of the comparison are null, the comparison raises an
\* error to its caller and returns no comparison result.
C15_NullInputRejected ==
    ( leftHtml = Null \/ rightHtml = Null ) => ~Returned

----------------------------------------------------------------------------
ContentsOf(diffs) == Concat([i \in DOMAIN diffs |-> diffs[i].content])

----------------------------------------------------------------------------
RECURSIVE IsSubseq(_, _)
IsSubseq(a, b) ==
    IF a = <<>> THEN TRUE
    ELSE IF b = <<>> THEN FALSE
    ELSE IF Head(a) = Head(b) THEN IsSubseq(Tail(a), Tail(b))
    ELSE IsSubseq(a, Tail(b))

\* The right document is the left document with extra lines inserted and nothing
\* else changed
PureInsertion ==
    /\ Len(rightHtml.lines) > Len(leftHtml.lines)
    /\ IsSubseq(leftHtml.lines, rightHtml.lines)
    /\ leftHtml.imgs = rightHtml.imgs
    /\ leftHtml.tables = rightHtml.tables

RowsTyped(rows, types) == { i \in DOMAIN rows : rows[i].type \in types }
NonEmptyLines(lines) == { i \in DOMAIN lines : Trim(lines[i].textContent) # <<>> }

----------------------------------------------------------------------------
\* The tables present in one document only (by index), with the side that has them
OneSidedTables ==
    { [table |-> t, status |-> "REMOVED"] :
        t \in (DOMAIN leftHtml.tables) \ (DOMAIN rightHtml.tables) }
    \cup
    { [table |-> t, status |-> "ADDED"] :
        t \in (DOMAIN rightHtml.tables) \ (DOMAIN leftHtml.tables) }

\* The table report holds exactly one entry for the table, a table-level one
OneTableLevelEvent(x) ==
    /\ \E k \in DOMAIN detailed.tables :
          detailed.tables[k] = [table |-> x.table, row |-> 0, col |-> 0, status |-> x.status]
    /\ Cardinality({ k \in DOMAIN detailed.tables : detailed.tables[k].table = x.table }) = 1

\* No row and no cell of the table carries a mark in the annotated document
TableUnmarked(table) ==
    \A r \in DOMAIN table :
      /\ table[r].classList = {}
      /\ \A c \in DOMAIN table[r].cells :
            /\ table[r].cells[c].classList = {}
            /\ table[r].cells[c].spans = <<>>

\* C18: when the two documents have different numbers of tables, each table present
\* on one side only is reported as one table-level ADDED or REMOVED event, and no
\* cell-level or row-level event or marking is produced for that table.
C18_TableLevelEvents ==
    Returned =>
      \A x \in OneSidedTables :
        /\ OneTableLevelEvent(x)
        /\ TableUnmarked(IF x.status = "REMOVED" THEN leftDiffs.tables[x.table]
                                                 ELSE rightDiffs.tables[x.table])

----------------------------------------------------------------------------
\* The number of line pairs of the raw alignment ps from index p on: the lines of an
\* equal segment, and the first min(R, A) lines of a removed segment followed by an
\* added segment
RECURSIVE PairedCount(_, _)
PairedCount(ps, p) ==
    IF p > Len(ps) THEN 0
    ELSE IF ps[p].removed /\ p + 1 <= Len(ps) /\ ps[p + 1].added
      THEN Min(ps[p].count, ps[p + 1].count) + PairedCount(ps, p + 2)
    ELSE IF ps[p].added \/ ps[p].removed THEN PairedCount(ps, p + 1)
    ELSE ps[p].count + PairedCount(ps, p + 1)

\* C19: the two row lists of the aligner have the same length; a placeholder row
\* stands on the left exactly opposite each right line without left counterpart and
\* on the right exactly opposite each left line without right counterpart; no row is
\* a placeholder on both sides; the annotated documents hold a placeholder element at
\* exactly the positions of the placeholder rows.
C19_PlaceholdersOpposite ==
    Aligned =>
      LET left == alignedDiff.left
          right == alignedDiff.right
          paired == PairedCount(parts, 1)
      IN  /\ Len(left) = Len(right)
          /\ \A i \in DOMAIN left :
                /\ ~(left[i].type = "placeholder" /\ right[i].type = "placeholder")
                /\ left[i].type = "placeholder" =>
                      /\ right[i].element # 0
                      /\ left[i].otherLine = right[i].element
                /\ right[i].type = "placeholder" =>
                      /\ left[i].element # 0
                      /\ right[i].otherLine = left[i].element
                /\ left[i].type = "placeholder" <=> left[i].element = 0
                /\ right[i].type = "placeholder" <=> right[i].element = 0
          /\ Cardinality(RowsTyped(left, {"placeholder"}))
               = Len(collected.otherLines) - paired
          /\ Cardinality(RowsTyped(right, {"placeholder"}))
               = Len(collected.ownLines) - paired
          /\ pc = "full" =>
                /\ Len(leftDiffs.lines) = Len(left)
                /\ Len(rightDiffs.lines) = Len(right)
                /\ \A i \in DOMAIN left :
                      /\ leftDiffs.lines[i].placeholder <=> left[i].type = "placeholder"
                      /\ rightDiffs.lines[i].placeholder <=> right[i].type = "placeholder"

C19_Witness ==
    /\ pc = "full"
    /\ \E i \in DOMAIN alignedDiff.left :
          alignedDiff.left[i].type = "placeholder" /\ rightDiffs.lines[i].placeholder = FALSE
    /\ \E j \in DOMAIN alignedDiff.right :
          alignedDiff.right[j].type = "placeholder" /\ rightDiffs.lines[j].placeholder
    /\ \E k \in DOMAIN alignedDiff.left :
          alignedDiff.left[k].element # 0 /\ alignedDiff.right[k].element # 0

----------------------------------------------------------------------------
\* The lines are exactly the block elements of the document that lie outside tables,
\* in document order (these are the elements 1..Len(html.lines) of the document)
OutsideTablesOnly(lines, html) ==
    /\ Len(lines) = Len(html.lines)
    /\ \A i \in DOMAIN lines : lines[i].element = i

HasBlockInTable(html) ==
    \E t \in DOMAIN html.tables : \E r \in DOMAIN html.tables[t] :
      \E c \in DOMAIN html.tables[t][r].cells : html.tables[t][r].cells[c].para

\* C20: no block that lies inside a table appears in the line sequence collected for
\* the alignment or in the line sequence collected for the detailed line report, and
\* no row of the aligner refers to such a block.
C20_TablesExcluded ==
    Aligned =>
      /\ OutsideTablesOnly(collected.ownLines, leftHtml)
      /\ OutsideTablesOnly(collected.otherLines, rightHtml)
      /\ \A i \in DOMAIN alignedDiff.left :
            /\ alignedDiff.left[i].element <= Len(leftHtml.lines)
            /\ alignedDiff.right[i].element <= Len(rightHtml.lines)
      /\ pc = "full" =>
            /\ OutsideTablesOnly(collected.leftLines, leftHtml)
            /\ OutsideTablesOnly(collected.rightLines, rightHtml)
            /\ Len(detailed.lines) <= Len(leftHtml.lines) + Len(rightHtml.lines)

C20_Witness ==
    /\ pc = "full"
    /\ HasBlockInTable(leftHtml) \/ HasBlockInTable(rightHtml)
    /\ Len(collected.ownLines) + Len(collected.otherLines) >= 1
    /\ Len(detailed.lines) >= 1

----------------------------------------------------------------------------
\* The attributes compareFormat reports, in the order of its tests
Attributes == << "bold", "italic", "underline", "font-size", "alignment" >>

KeyOf(attribute) ==
    CASE attribute = "bold" -> "hasBold"
      [] attribute = "italic" -> "hasItalic"
      [] attribute = "underline" -> "hasUnderline"
      [] attribute = "font-size" -> "fontSize"
      [] attribute = "alignment" -> "textAlign"

\* The value a descriptor shows for an attribute; an absent attribute shows as an
\* unset one ("off" for a flag, "auto" for a size or an alignment)
Shown(f, attribute) ==
    LET key == KeyOf(attribute)
    IN  IF attribute \in { "bold", "italic", "underline" }
          THEN IF key \in DOMAIN f /\ f[key] = TRUE THEN "on" ELSE "off"
          ELSE IF key \in DOMAIN f /\ f[key] # "" THEN f[key] ELSE "auto"

Differing(f, g) == { i \in DOMAIN Attributes : Shown(f, Attributes[i]) # Shown(g, Attributes[i]) }

AttributeIndex(name) == CHOOSE i \in DOMAIN Attributes : Attributes[i] = name

\* C21: compareFormat returns exactly one descriptor "<attribute>: <old> -> <new>" for
\* each of bold, italic, underline, font size and alignment that differs, in that
\* order, and the empty list when all five are equal; an absent attribute equals an
\* unset one.
C21_CompareFormat ==
    pc = "compared" =>
        /\ Len(changes) = Cardinality(Differing(lFmt, rFmt))
        /\ \A i \in Differing(lFmt, rFmt) :
              /\ Cardinality({ k \in DOMAIN changes : changes[k][1] = Attributes[i] }) = 1
              /\ \E k \in DOMAIN changes :
                    changes[k] = << Attributes[i], Shown(lFmt, Attributes[i]), "->",
                                    Shown(rFmt, Attributes[i]) >>
        /\ \A k1, k2 \in DOMAIN changes :
              k1 < k2 => AttributeIndex(changes[k1][1]) < AttributeIndex(changes[k2][1])
        /\ (Differing(lFmt, rFmt) = {}) => changes = <<>>

\* Witness of C21: an absent flag against an unset one, and two attributes that differ
C21_Witness ==
    /\ pc = "compared"
    /\ "hasBold" \notin DOMAIN lFmt
    /\ "hasBold" \in DOMAIN rFmt /\ rFmt.hasBold = FALSE
    /\ Len(changes) = 2
    /\ changes[1][1] = "italic"
    /\ changes[2][1] = "alignment"

----------------------------------------------------------------------------
\* C22: a comparison never changes the documents the caller supplied: on every path
\* leftHtml and rightHtml are after the call what they were before it, the annotation
\* being applied to copies.
C22_InputsNotMutated ==
    [][leftHtml' = leftHtml /\ rightHtml' = rightHtml]_vars

\* Witness of C22: the call returned annotated documents that differ from the inputs
C22_Witness ==
    /\ pc = "full"
    /\ leftDiffs # leftHtml
    /\ rightDiffs # rightHtml
    /\ \E i \in DOMAIN leftDiffs.lines : leftDiffs.lines[i].classList # {}

----------------------------------------------------------------------------
\* C23: in the result of createTrueLineAlignment the summary agrees with the rows:
\* additions is the number of right rows typed added or modified, and deletions is
\* the number of left rows typed removed or modified, empty lines included.
C23_SummaryMatchesRows ==
    Aligned =>
        /\ textSummary.additions =
              Cardinality(RowsTyped(alignedDiff.right, { "added", "modified" }))
        /\ textSummary.deletions =
              Cardinality(RowsTyped(alignedDiff.left, { "removed", "modified" }))

----------------------------------------------------------------------------
\* A returned document that carries no change marking: no marked line, no inserted
\* placeholder, no marked image, no marked table row or cell
DocUnmarked(d) ==
    /\ \A i \in DOMAIN d.lines : d.lines[i].classList = {} /\ ~d.lines[i].placeholder
    /\ \A i \in DOMAIN d.imgs : d.imgs[i].classList = {}
    /\ \A t \in DOMAIN d.tables : TableUnmarked(d.tables[t])

\* C24: when the returned summary has changes = 0, neither returned document carries
\* a change marking: no line, table cell or image is marked added, removed or
\* modified and no placeholder was inserted.
C24_NoChangesNoMarks ==
    (Returned /\ summary.changes = 0) =>
        (DocUnmarked(leftDiffs) /\ DocUnmarked(rightDiffs))

----------------------------------------------------------------------------
Entries(status) == { i \in DOMAIN detailed.lines : detailed.lines[i].status = status }

\* C25: the line report agrees with the aligner: each pair the aligner types modified
\* is one MODIFIED entry with a left and a right line number, each line it types
\* added or removed is one ADDED or REMOVED entry, and pairs it types unchanged are
\* never reported as ADDED or REMOVED.
C25_ReportMatchesAligner ==
    pc = "full" =>
        /\ Cardinality(Entries("MODIFIED")) =
              Cardinality(RowsTyped(alignedDiff.left, { "modified" }))
        /\ \A i \in Entries("MODIFIED") :
              detailed.lines[i].v1 # 0 /\ detailed.lines[i].v2 # 0
        /\ Cardinality(Entries("ADDED")) =
              Cardinality(RowsTyped(alignedDiff.right, { "added" }))
        /\ Cardinality(Entries("REMOVED")) =
              Cardinality(RowsTyped(alignedDiff.left, { "removed" }))

----------------------------------------------------------------------------
\* C26: the counts of applyImageDiffOutlines satisfy
\* additions - deletions = rightCount - leftCount, and neither count exceeds
\* max(leftCount, rightCount).
C26_ImageCounts ==
    pc = "full" =>
        LET leftCount == Len(leftHtml.imgs)
            rightCount == Len(rightHtml.imgs)
        IN  /\ structSummary.additions - structSummary.deletions = rightCount - leftCount
            /\ structSummary.additions <= Max(leftCount, rightCount)
            /\ structSummary.deletions <= Max(leftCount, rightCount)

\* Witness of C26: a replaced image followed by an image on the left only
C26_Witness ==
    /\ pc = "full"
    /\ Len(leftHtml.imgs) = 2
    /\ Len(rightHtml.imgs) = 1
    /\ leftHtml.imgs[1].src # rightHtml.imgs[1].src
    /\ structSummary = [additions |-> 1, deletions |-> 2]

----------------------------------------------------------------------------
\* C27: in App a non-null comparison was computed from exactly the two documents
\* currently loaded: an upload into either slot and a clear reset the comparison to
\* null, and a comparison is only computed when both documents are present.
C27_ComparisonCurrent ==
    /\ [](comparison # Null =>
            /\ leftDocument # Null
            /\ rightDocument # Null
            /\ comparison = ResultOf(leftDocument, rightDocument))
    /\ [][(leftDocument' # leftDocument \/ rightDocument' # rightDocument)
             => comparison' = Null]_vars
    /\ [][(comparison' # comparison /\ comparison' # Null)
             => (leftDocument # Null /\ rightDocument # Null)]_vars

\* Witness of C27: after the left document was replaced by a later upload, the
\* comparison of the new pair of documents is shown
C27_Witness ==
    /\ comparison # Null
    /\ comparison = ResultOf(leftDocument, rightDocument)
    /\ viewMode = "comparison"
    /\ leftDocument # Null /\ leftDocument.id = 4
    /\ rightDocument # Null /\ rightDocument.id = 2
    /\ events = 5
    /\ calls = {}

\* C30: in App viewMode = "comparison" implies that the comparison is non-null and
\* both documents are loaded, also after clearDocuments and after an upload.
C30_ComparisonViewHasComparison ==
    viewMode = "comparison" =>
        (comparison # Null /\ leftDocument # Null /\ rightDocument # Null)

----------------------------------------------------------------------------
\* C29: when files are dropped on the same slot one after the other, the document
\* kept in the slot once every parse has completed without error is the one of the
\* file dropped last, in whatever order the parses complete, and isProcessing stays
\* true as long as a parse is pending.
C29_LastDropWins ==
    /\ (calls = {} /\ events >= 2 /\ error["left"] = "" /\ leftDocument # Null)
          => leftDocument.id = events
    /\ calls # {} => isProcessing["left"]

----------------------------------------------------------------------------
\* C28: in useDocumentComparison a comparison started before a document was replaced
\* or cleared is never stored afterwards: whenever comparison is non-null it was
\* computed from the documents currently loaded, under every interleaving of
\* compareDocuments, handleDocumentUpload and clearDocuments.
C28_NoStaleComparison ==
    comparison # Null =>
        /\ leftDocument # Null
        /\ rightDocument # Null
        /\ comparison = ResultOf(leftDocument, rightDocument)

====
